---- MODULE Spec2Model ----
(***************************************************************************)
(* A model of memory-hub (jwfing/memory-hub): the knowledge-graph          *)
(* analytics of memhub/graph_service.py, the retrieval of                  *)
(* memhub/rag_service.py, the extractor of                                 *)
(* memhub/entity_extraction_service.py and the ingestion handlers of       *)
(* server_http.py.                                                         *)
(*                                                                         *)
(* Each subsystem has its own specification over its own variables; the    *)
(* variables of the other subsystems stay at their initial values.         *)
(*   SpecTraverse   GraphService.get_related_entities (the dfs closure)    *)
(*   SpecSearch     RAGService.search_conversations                        *)
(*   SpecImportance GraphService.get_entity_importance                     *)
(*   SpecClusters   GraphService.get_topic_clusters                        *)
(*   SpecExtractFallback, SpecExtractSpacy                                 *)
(*                  EntityExtractionService.extract_entities               *)
(*   SpecIngest     save_conversation (MCP tool and /api/save)             *)
(*   SpecRecent     RAGService.get_recent_context                          *)
(*   SpecSessions   the store sessions of the request handlers             *)
(*   SpecOwnership  save_conversation, add_relationship, build_user_graph  *)
(*   SpecProxy      BackendConnection.connect / close of server.py         *)
(*   SpecAuth       logins, API keys and the caller of a tool call         *)
(*   SpecSaveEquiv  the save_conversation tool and /api/save side by side  *)
(***************************************************************************)
EXTENDS Integers, Sequences, FiniteSets, TLC

(***************************************************************************)
(* Bounds of the model.                                                    *)
(***************************************************************************)
MaxNodes == 3
MaxEdges == 3
MaxWeight == 2
MaxDepth == 2
MaxLimit == 3
MaxRows == 3
MaxSim == 2
MaxSearchLimit == 2
MaxPr == 2
MaxClusterNodes == 3
MaxClusterEdges == 1
MaxMinSize == 3
MaxTokens == 3
MaxEnts == 3
MaxChunks == 1
MaxSaves == 2
MaxRecentRows == 3
MaxTime == 2
MaxOwnSaves == 2
MaxOwnAdds == 1
MaxSseClients == 2
MaxConnectCalls == 3
MaxApiKeys == 1
MaxAuthTime == 3
MaxLogins == 2

(***************************************************************************)
(* Helpers.                                                                *)
(***************************************************************************)
Min(a, b) == IF a <= b THEN a ELSE b
Max(a, b) == IF a >= b THEN a ELSE b
Range(s) == {s[i] : i \in 1..Len(s)}
NoDuplicates(s) == \A i, j \in 1..Len(s) : i # j => s[i] # s[j]

\* Python's s[:n]: the first n elements, or all but the last -n when n < 0.
PySlicePrefix(s, n) ==
    IF n >= 0 THEN SubSeq(s, 1, Min(n, Len(s)))
    ELSE SubSeq(s, 1, Max(0, Len(s) + n))

VARIABLES
    \* ---- get_related_entities -------------------------------------------
    G,            \* the nx.DiGraph of build_user_graph: [nodes, edges]
    seed,         \* entity.id of the resolved seed entity, or NoEntity
    max_depth,    \* argument max_depth
    limit,        \* argument limit
    related,      \* the list `related` of the closure
    visited,      \* the set `visited` of the closure
    stack,        \* the call stack of dfs: a sequence of frames, top last
    trResult,     \* the returned list, once the call has returned
    trPc,         \* "call" | "dfs" | "done"
    \* ---- search_conversations -------------------------------------------
    corpus,       \* the conversations table: id -> [owner, session, similarity]
    sArgs,        \* the arguments of the call: [user_id, session_id, limit, threshold]
    sFetched,     \* the rows the similarity query returned, in order
    sResult,      \* the returned list `conversations`
    sPc,          \* "call" | "done" | "error"
    \* ---- get_entity_importance ------------------------------------------
    iG,           \* the graph of build_user_graph
    iLimit,       \* argument limit
    iResult,      \* the returned list importance_scores[:limit]
    iPc,          \* "call" | "done" | "ZeroDivisionError"
    \* ---- get_topic_clusters ---------------------------------------------
    cG,           \* the graph of build_user_graph, with the nodes' types
    cMinSize,     \* argument min_cluster_size
    cLouvain,     \* whether the module `community` can be imported
    cCommunities, \* the dict `communities`: node -> community id
    cResult,      \* the returned list `clusters`
    cPc,          \* "call" | "done"
    \* ---- extract_entities -----------------------------------------------
    xSpacy,       \* whether self.spacy_model is loaded
    xText,        \* argument text, as the fallback extractor reads it
    xDoc,         \* self.spacy_model(text): [ents, noun_chunks, verbs]
    xWantRel,     \* argument extract_relationships
    xEntities,    \* the returned list `entities`
    xRelationships, \* the returned list `relationships`
    xPc,          \* "call" | "done"
    \* ---- save_conversation ----------------------------------------------
    dbConversations, \* committed rows of conversations
    dbEntities,      \* committed rows of entities
    dbRelationships, \* committed rows of relationships
    dbSeq,           \* the id sequences of the three tables
    proc,            \* per server process: the request it is handling
    rd,              \* a concurrent reader running build_user_graph
    \* ---- get_recent_context ---------------------------------------------
    rcTable,      \* the conversations table, in order of creation
    rcArgs,       \* the arguments of the call: [user_id, session_id, limit]
    rcResult,     \* the returned list, as the ids of its rows
    rcPc,         \* "idle" | "done" | "error"
    \* ---- store sessions ---------------------------------------------------
    sess,         \* per request: the handler serving it and its session
    \* ---- ownership of the graph ------------------------------------------
    owConversations, \* committed rows of conversations: [id, user_id]
    owEntities,      \* committed rows of entities: [id, conversation_id]
    owRelationships, \* committed rows of relationships
    owSeq,           \* the id sequences, and the add_relationship calls made
    owBuilder,       \* a build_user_graph call between and after its queries
    \* ---- the proxy's BackendConnection -----------------------------------
    bcSession,    \* self._session: None or the number of a ClientSession
    bcSseClient,  \* self._sse_client: None or the number of an SSE client
    pxClients,    \* the SSE clients created so far, by number: their state
    pxSessions,   \* the ClientSessions created so far, by number: their state
    pxCalls,      \* the connect calls made so far
    pxTask,       \* per task: its position in connect / close
    \* ---- credentials -----------------------------------------------------
    auUsers,      \* the users table: user -> [is_active]
    auKeys,       \* the api_keys table, by row id
    auTokens,     \* the JWTs generate_token has signed
    auNow,        \* datetime.utcnow(), in days
    auLast,       \* the latest call: its credential, caller and user_id
    auRevoked,    \* the keys revoke_api_key has succeeded for
    auDeactivated, \* the users deactivate_user has succeeded for
    \* ---- the two save handlers side by side -----------------------------
    svRequest,    \* the request both handlers are given, and its fault
    svRun         \* per handler: the statements it sent and its result

trVars == <<G, seed, max_depth, limit, related, visited, stack, trResult, trPc>>
sVars == <<corpus, sArgs, sFetched, sResult, sPc>>
iVars == <<iG, iLimit, iResult, iPc>>
cVars == <<cG, cMinSize, cLouvain, cCommunities, cResult, cPc>>
xVars == <<xSpacy, xText, xDoc, xWantRel, xEntities, xRelationships, xPc>>
inVars == <<dbConversations, dbEntities, dbRelationships, dbSeq, proc, rd>>
rcVars == <<rcTable, rcArgs, rcResult, rcPc>>
seVars == <<sess>>
owVars == <<owConversations, owEntities, owRelationships, owSeq, owBuilder>>
pxVars == <<bcSession, bcSseClient, pxClients, pxSessions, pxCalls, pxTask>>
auVars == <<auUsers, auKeys, auTokens, auNow, auLast, auRevoked, auDeactivated>>
svVars == <<svRequest, svRun>>
vars == <<trVars, sVars, iVars, cVars, xVars, inVars, rcVars, seVars,
         owVars, pxVars, auVars, svVars>>

\* What an action of one subsystem leaves alone: the other subsystems.
trOthers == <<sVars, iVars, cVars, xVars, inVars, rcVars, seVars, owVars,
    pxVars, auVars, svVars>>
sOthers == <<trVars, iVars, cVars, xVars, inVars, rcVars, seVars, owVars,
    pxVars, auVars, svVars>>
iOthers == <<trVars, sVars, cVars, xVars, inVars, rcVars, seVars, owVars,
    pxVars, auVars, svVars>>
cOthers == <<trVars, sVars, iVars, xVars, inVars, rcVars, seVars, owVars,
    pxVars, auVars, svVars>>
xOthers == <<trVars, sVars, iVars, cVars, inVars, rcVars, seVars, owVars,
    pxVars, auVars, svVars>>
inOthers == <<trVars, sVars, iVars, cVars, xVars, rcVars, seVars, owVars,
    pxVars, auVars, svVars>>
rcOthers == <<trVars, sVars, iVars, cVars, xVars, inVars, seVars, owVars,
    pxVars, auVars, svVars>>
seOthers == <<trVars, sVars, iVars, cVars, xVars, inVars, rcVars, owVars,
    pxVars, auVars, svVars>>
owOthers == <<trVars, sVars, iVars, cVars, xVars, inVars, rcVars, seVars,
    pxVars, auVars, svVars>>
pxOthers == <<trVars, sVars, iVars, cVars, xVars, inVars, rcVars, seVars,
    owVars, auVars, svVars>>
auOthers == <<trVars, sVars, iVars, cVars, xVars, inVars, rcVars, seVars,
    owVars, pxVars, svVars>>
svOthers == <<trVars, sVars, iVars, cVars, xVars, inVars, rcVars, seVars,
    owVars, pxVars, auVars>>

(***************************************************************************)
(* GraphService.get_related_entities, graph_service.py:69-143.             *)
(* The graph has nodes 1..MaxNodes and at most MaxEdges edges; an edge is  *)
(* a record [src, dst, weight] and a DiGraph holds at most one edge per    *)
(* ordered pair, self-loops included.                                      *)
(***************************************************************************)
NoEntity == 0
Nodes == 1..MaxNodes
Weights == 1..MaxWeight
TraversalLimits == {0 - 1} \cup (0..MaxLimit)

\* The graphs on the node set N with at most maxEdges edges, weights in W.
GraphsOn(N, maxEdges, W) ==
    { [nodes |-> N, edges |-> { [src |-> p[1], dst |-> p[2], weight |-> w[p]] : p \in E }] :
        <<E, w>> \in UNION { {E0} \X [E0 -> W] :
            E0 \in { X \in SUBSET (N \X N) : Cardinality(X) <= maxEdges } } }

Graphs == GraphsOn(Nodes, MaxEdges, Weights)

\* G.successors(node_id)
Successors(g, n) == { e.dst : e \in { x \in g.edges : x.src = n } }

\* G.get_edge_data(node_id, neighbor)
EdgeData(g, n, m) == CHOOSE e \in g.edges : e.src = n /\ e.dst = m

\* One activation of dfs(node_id, depth, path).  `entered` is FALSE until the
\* guard of line 114 has been evaluated; `todo` holds the successors the for
\* loop of line 120 has not reached yet.
Frame(n, d, p) == [node |-> n, depth |-> d, path |-> p, todo |-> {}, entered |-> FALSE]

Top == stack[Len(stack)]
Pop == SubSeq(stack, 1, Len(stack) - 1)
ReplaceTop(f) == [stack EXCEPT ![Len(stack)] = f]

\* RelatedEntry as it would be with "path": path, the path of the parent.
RelatedEntry_ParentPath(f, neighbor) ==
    [entity_id |-> neighbor,
     weight    |-> EdgeData(G, f.node, neighbor).weight,
     depth     |-> f.depth + 1,
     path      |-> f.path]

\* The entry appended at lines 125-133.
RelatedEntry(f, neighbor) ==
    [entity_id |-> neighbor,
     weight    |-> EdgeData(G, f.node, neighbor).weight,
     depth     |-> f.depth + 1,
     path      |-> Append(f.path, neighbor)]

\* SortKeyLess as it would be with key=lambda x: -x["weight"].
SortKeyLess_WeightOnly(a, b) == a.weight > b.weight

\* key=lambda x: (-x["weight"], x["depth"]), line 141
SortKeyLess(a, b) ==
    \/ a.weight > b.weight
    \/ a.weight = b.weight /\ a.depth < b.depth

\* list.sort is stable: x goes behind every element whose key is not greater.
StableInsert(s, x) ==
    LET k == Cardinality({ i \in 1..Len(s) : ~SortKeyLess(x, s[i]) })
    IN  SubSeq(s, 1, k) \o <<x>> \o SubSeq(s, k + 1, Len(s))

RECURSIVE SortRelated(_)
SortRelated(s) ==
    IF s = <<>> THEN <<>>
    ELSE StableInsert(SortRelated(SubSeq(s, 1, Len(s) - 1)), s[Len(s)])

TraverseInit ==
    /\ G \in Graphs
    /\ seed \in Nodes \cup {NoEntity}
    /\ max_depth \in 0..MaxDepth
    /\ limit \in TraversalLimits
    /\ related = <<>>
    /\ visited = {}
    /\ stack = <<>>
    /\ trResult = <<>>
    /\ trPc = "call"

\* lines 90-101: no entity matches the seed text.
SeedNotFound ==
    /\ trPc = "call"
    /\ seed = NoEntity
    /\ trResult' = <<>>
    /\ trPc' = "done"
    /\ UNCHANGED <<G, seed, max_depth, limit, related, visited, stack, trOthers>>

\* StartDfs as it would be if the seed itself were reported.
StartDfs_SeedReported ==
    /\ trPc = "call"
    /\ seed # NoEntity
    /\ related' = <<[entity_id |-> seed, weight |-> 1, depth |-> 0, path |-> <<seed>>]>>
    /\ visited' = {}
    /\ stack' = <<Frame(seed, 0, <<seed>>)>>
    /\ trPc' = "dfs"
    /\ UNCHANGED <<G, seed, max_depth, limit, trResult, trOthers>>

\* lines 104-111, 138: the graph is built and dfs(entity.id, 0, [entity.id]) is called.
StartDfs ==
    /\ trPc = "call"
    /\ seed # NoEntity
    /\ related' = <<>>
    /\ visited' = {}
    /\ stack' = <<Frame(seed, 0, <<seed>>)>>
    /\ trPc' = "dfs"
    /\ UNCHANGED <<G, seed, max_depth, limit, trResult, trOthers>>

\* lines 114-115: the guard of dfs returns at once.
DfsGuardReturn ==
    /\ trPc = "dfs"
    /\ stack # <<>>
    /\ ~Top.entered
    /\ (Top.depth > max_depth \/ Top.node \in visited)
    /\ stack' = Pop
    /\ UNCHANGED <<G, seed, max_depth, limit, related, visited, trResult, trPc, trOthers>>

\* DfsEnter as it would be without visited.add(node_id).
DfsEnter_NotMarked ==
    /\ trPc = "dfs"
    /\ stack # <<>>
    /\ ~Top.entered
    /\ ~(Top.depth > max_depth \/ Top.node \in visited)
    /\ visited' = visited
    /\ stack' = ReplaceTop([Top EXCEPT !.entered = TRUE, !.todo = Successors(G, Top.node)])
    /\ UNCHANGED <<G, seed, max_depth, limit, related, trResult, trPc, trOthers>>

\* lines 117-120: the node is marked visited and the loop over its successors starts.
DfsEnter ==
    /\ trPc = "dfs"
    /\ stack # <<>>
    /\ ~Top.entered
    /\ ~(Top.depth > max_depth \/ Top.node \in visited)
    /\ visited' = visited \cup {Top.node}
    /\ stack' = ReplaceTop([Top EXCEPT !.entered = TRUE, !.todo = Successors(G, Top.node)])
    /\ UNCHANGED <<G, seed, max_depth, limit, related, trResult, trPc, trOthers>>

\* lines 120-136: one iteration of the for loop.  The order of G.successors is
\* the insertion order of the edges, i.e. the row order of an unordered query,
\* so any successor not yet reached may be the next one.
DfsNeighbor ==
    /\ trPc = "dfs"
    /\ stack # <<>>
    /\ Top.entered
    /\ \E neighbor \in Top.todo :
        LET f == [Top EXCEPT !.todo = Top.todo \ {neighbor}]
            rel == IF neighbor \notin visited
                   THEN Append(related, RelatedEntry(Top, neighbor))
                   ELSE related
        IN  /\ related' = rel
            /\ stack' = IF neighbor \notin visited /\ Len(rel) < limit
                        THEN Append(ReplaceTop(f),
                                    Frame(neighbor, Top.depth + 1, Append(Top.path, neighbor)))
                        ELSE ReplaceTop(f)
    /\ UNCHANGED <<G, seed, max_depth, limit, visited, trResult, trPc, trOthers>>

\* the for loop of line 120 is exhausted: dfs returns.
DfsReturn ==
    /\ trPc = "dfs"
    /\ stack # <<>>
    /\ Top.entered
    /\ Top.todo = {}
    /\ stack' = Pop
    /\ UNCHANGED <<G, seed, max_depth, limit, related, visited, trResult, trPc, trOthers>>

\* lines 140-143: sort by (-weight, depth) and truncate.
SortAndTruncate ==
    /\ trPc = "dfs"
    /\ stack = <<>>
    /\ trResult' = PySlicePrefix(SortRelated(related), limit)
    /\ trPc' = "done"
    /\ UNCHANGED <<G, seed, max_depth, limit, related, visited, stack, trOthers>>

TraverseNext ==
    \/ SeedNotFound
    \/ StartDfs
    \/ DfsGuardReturn
    \/ DfsEnter
    \/ DfsNeighbor
    \/ DfsReturn
    \/ SortAndTruncate

\* The traversal variables while another subsystem runs.
TraverseIdle ==
    /\ G = [nodes |-> {}, edges |-> {}]
    /\ seed = NoEntity
    /\ max_depth = 0
    /\ limit = 0
    /\ related = <<>>
    /\ visited = {}
    /\ stack = <<>>
    /\ trResult = <<>>
    /\ trPc = "idle"

(***************************************************************************)
(* RAGService.search_conversations, rag_service.py:18-86.                  *)
(* A similarity is the value of 1 - cosine_distance for the query at hand, *)
(* scaled to 0..MaxSim, or NaN: get_embedding returns the zero vector for  *)
(* empty text or on failure (embeddings.py:28-37), and the cosine distance *)
(* to a zero vector is NaN, which SQL orders above every number and which  *)
(* fails every Python comparison.  NaN is encoded as MaxSim + 1.           *)
(***************************************************************************)
NaN == MaxSim + 1
Users == {"u1", "u2"}
Sessions == {"s1", "s2"}
NoSession == "None"
Similarities == (0..MaxSim) \cup {NaN}
SearchLimits == {0 - 1} \cup (0..MaxSearchLimit)

\* similarity >= similarity_threshold, line 71
SimGe(sim, threshold) == sim # NaN /\ sim >= threshold

\* ORDER BY similarity DESC: a may come before b.
SimDescOk(a, b) == a >= b

\* lines 49-56, 62-63: the filters of the query (owner, and session when given).
SearchFilter(args) ==
    { id \in DOMAIN corpus :
        /\ corpus[id].owner = args.user_id
        /\ (args.session_id # NoSession => corpus[id].session = args.session_id) }

\* The orders in which the query may return the rows of S: similarity
\* descending, rows of equal similarity in any order.
RankedOrders(S) ==
    { q \in [1..Cardinality(S) -> S] :
        /\ \A i, j \in DOMAIN q : i # j => q[i] # q[j]
        /\ \A i, j \in DOMAIN q : i < j => SimDescOk(corpus[q[i]].similarity, corpus[q[j]].similarity) }

\* .limit(limit * 2), line 66
OverFetch(q, lim) == SubSeq(q, 1, Min(lim * 2, Len(q)))

\* FilterByThreshold without the break of lines 83-84.
RECURSIVE FilterByThreshold_NoBreak(_, _, _, _, _)
FilterByThreshold_NoBreak(results, i, conversations, threshold, lim) ==
    IF i > Len(results) THEN conversations
    ELSE IF SimGe(corpus[results[i]].similarity, threshold)
         THEN FilterByThreshold_NoBreak(results, i + 1,
                  Append(conversations,
                         [id |-> results[i], similarity |-> corpus[results[i]].similarity]),
                  threshold, lim)
         ELSE FilterByThreshold_NoBreak(results, i + 1, conversations, threshold, lim)

\* lines 69-84: keep the rows that reach the threshold, stop at limit rows.
RECURSIVE FilterByThreshold(_, _, _, _, _)
FilterByThreshold(results, i, conversations, threshold, lim) ==
    IF i > Len(results) THEN conversations
    ELSE IF SimGe(corpus[results[i]].similarity, threshold)
         THEN LET appended == Append(conversations,
                                     [id |-> results[i], similarity |-> corpus[results[i]].similarity])
              IN  IF Len(appended) >= lim THEN appended
                  ELSE FilterByThreshold(results, i + 1, appended, threshold, lim)
         ELSE FilterByThreshold(results, i + 1, conversations, threshold, lim)

\* Rows are told apart by id only and the order of the query's rows does not
\* depend on the ids, so the ids are given in one order of the rows' contents.
RowKey(r) ==
    (IF r.owner = "u1" THEN 0 ELSE 1) * 2 * (MaxSim + 2)
      + (IF r.session = "s1" THEN 0 ELSE 1) * (MaxSim + 2) + r.similarity

SearchInit ==
    /\ corpus \in { c \in [1..MaxRows -> [owner : Users, session : Sessions, similarity : Similarities]] :
                       \A i \in 1..(MaxRows - 1) : RowKey(c[i]) <= RowKey(c[i + 1]) }
    /\ sArgs \in [user_id : {"u1"}, session_id : {NoSession, "s1"},
                   limit : SearchLimits, threshold : 0..MaxSim]
    /\ sFetched = <<>>
    /\ sResult = <<>>
    /\ sPc = "call"

\* lines 59-86 with limit >= 0.
SearchConversations ==
    /\ sPc = "call"
    /\ sArgs.limit >= 0
    /\ \E q \in RankedOrders(SearchFilter(sArgs)) :
        /\ sFetched' = OverFetch(q, sArgs.limit)
        /\ sResult' = FilterByThreshold(sFetched', 1, <<>>, sArgs.threshold, sArgs.limit)
    /\ sPc' = "done"
    /\ UNCHANGED <<corpus, sArgs, sOthers>>

\* line 66 with limit < 0: the store rejects a negative LIMIT and the query raises.
SearchRaises ==
    /\ sPc = "call"
    /\ sArgs.limit < 0
    /\ sPc' = "error"
    /\ UNCHANGED <<corpus, sArgs, sFetched, sResult, sOthers>>

SearchNext ==
    \/ SearchConversations
    \/ SearchRaises

SearchIdle ==
    /\ corpus = <<>>
    /\ sArgs = [user_id |-> "u1", session_id |-> NoSession, limit |-> 0, threshold |-> 0]
    /\ sFetched = <<>>
    /\ sResult = <<>>
    /\ sPc = "idle"

(***************************************************************************)
(* GraphService.get_entity_importance, graph_service.py:145-196.           *)
(* Scores are exact rationals [num, den].  nx.pagerank is a library call:  *)
(* its result is a positive distribution over the nodes, here pr[n] / the  *)
(* sum of pr for any pr: nodes -> 1..MaxPr, and the uniform distribution   *)
(* (which is also the fallback of line 171) on a graph without edges.      *)
(***************************************************************************)
RECURSIVE SumWeights(_)
SumWeights(E) ==
    IF E = {} THEN 0
    ELSE LET e == CHOOSE x \in E : TRUE IN e.weight + SumWeights(E \ {e})

\* G.degree(node, weight="weight"): weighted in-degree plus out-degree.
Degree(g, n) ==
    SumWeights({ e \in g.edges : e.src = n }) + SumWeights({ e \in g.edges : e.dst = n })

RECURSIVE SumOf(_, _)
SumOf(f, S) ==
    IF S = {} THEN 0
    ELSE LET x == CHOOSE y \in S : TRUE IN f[x] + SumOf(f, S \ {x})

MaxOf(S) == CHOOSE x \in S : \A y \in S : y <= x

\* lines 168-171
PageRanks(g) ==
    IF g.edges = {} THEN { [n \in g.nodes |-> 1] }
    ELSE [g.nodes -> 1..MaxPr]

\* max(degree_centrality.values() or [1]), line 190: a dict view is falsy only
\* when it is empty, so on a graph with nodes this is the largest degree.
MaxDegreeDivisor(g) ==
    IF g.nodes = {} THEN 1 ELSE MaxOf({ Degree(g, n) : n \in g.nodes })

\* lines 183-191, for a divisor that is not 0:
\* importance = pagerank * 0.6 + (degree / divisor) * 0.4
ImportanceEntry(g, pr, n) ==
    LET total == SumOf(pr, g.nodes)
        divisor == MaxDegreeDivisor(g)
    IN  [entity_id  |-> n,
         pagerank   |-> [num |-> pr[n], den |-> total],
         degree     |-> Degree(g, n),
         importance |-> [num |-> 6 * pr[n] * divisor + 4 * Degree(g, n) * total,
                         den |-> 10 * total * divisor]]

RatLess(a, b) == a.num * b.den < b.num * a.den

\* importance_scores.sort(key=lambda x: -x["importance"]), line 194 (stable)
ImportanceInsert(s, x) ==
    LET k == Cardinality({ i \in 1..Len(s) : ~RatLess(s[i].importance, x.importance) })
    IN  SubSeq(s, 1, k) \o <<x>> \o SubSeq(s, k + 1, Len(s))

RECURSIVE SortImportance(_)
SortImportance(s) ==
    IF s = <<>> THEN <<>>
    ELSE ImportanceInsert(SortImportance(SubSeq(s, 1, Len(s) - 1)), s[Len(s)])

\* the loop of lines 181-191 over G.nodes, here 1..n
ImportanceScores(g, pr) ==
    [i \in 1..Cardinality(g.nodes) |-> ImportanceEntry(g, pr, i)]

ImportanceInit ==
    /\ iG \in UNION { GraphsOn(1..n, MaxEdges, Weights) : n \in 0..MaxNodes }
    /\ iLimit \in TraversalLimits
    /\ iResult = <<>>
    /\ iPc = "call"

\* lines 162-165
ImportanceEmptyGraph ==
    /\ iPc = "call"
    /\ iG.nodes = {}
    /\ iResult' = <<>>
    /\ iPc' = "done"
    /\ UNCHANGED <<iG, iLimit, iOthers>>

\* lines 167-190: the division of line 190 raises when every degree is 0.
ImportanceRaises ==
    /\ iPc = "call"
    /\ iG.nodes # {}
    /\ MaxDegreeDivisor(iG) = 0
    /\ iPc' = "ZeroDivisionError"
    /\ UNCHANGED <<iG, iLimit, iResult, iOthers>>

\* lines 167-196
ImportanceReturns ==
    /\ iPc = "call"
    /\ iG.nodes # {}
    /\ MaxDegreeDivisor(iG) # 0
    /\ \E pr \in PageRanks(iG) :
        iResult' = PySlicePrefix(SortImportance(ImportanceScores(iG, pr)), iLimit)
    /\ iPc' = "done"
    /\ UNCHANGED <<iG, iLimit, iOthers>>

ImportanceNext ==
    \/ ImportanceEmptyGraph
    \/ ImportanceRaises
    \/ ImportanceReturns

ImportanceIdle ==
    /\ iG = [nodes |-> {}, edges |-> {}]
    /\ iLimit = 0
    /\ iResult = <<>>
    /\ iPc = "idle"

(***************************************************************************)
(* GraphService.get_topic_clusters, graph_service.py:198-262.              *)
(* The nodes are 1..n and are iterated in that order.  best_partition is a *)
(* library call: its result is some assignment of every node to a          *)
(* community, here any partition of the nodes.                             *)
(***************************************************************************)
EntityTypes == {"concept", "technology"}
MinSizes == {0 - 1} \cup (0..MaxMinSize)

MinOf(S) == CHOOSE x \in S : \A y \in S : x <= y

RECURSIVE AscendingSeq(_)
AscendingSeq(S) ==
    IF S = {} THEN <<>> ELSE <<MinOf(S)>> \o AscendingSeq(S \ {MinOf(S)})

\* UndirectedStep as it would be on the directed graph: successors only.
UndirectedStep_Directed(g, S) ==
    S \cup { e.dst : e \in { x \in g.edges : x.src \in S } }

\* G.to_undirected(), line 221: the nodes one undirected edge away from S.
UndirectedStep(g, S) ==
    S \cup { e.dst : e \in { x \in g.edges : x.src \in S } }
      \cup { e.src : e \in { x \in g.edges : x.dst \in S } }

RECURSIVE ComponentOf(_, _)
ComponentOf(g, S) ==
    IF UndirectedStep(g, S) = S THEN S ELSE ComponentOf(g, UndirectedStep(g, S))

\* lines 229-232: enumerate(nx.connected_components(G_undirected)); the
\* components come in the order of their first node.
ComponentLabels(g) ==
    [n \in g.nodes |->
        Cardinality({ MinOf(ComponentOf(g, {m})) : m \in g.nodes }
                    \cap (0..(MinOf(ComponentOf(g, {n})) - 1)))]

\* line 226: the partitions of the nodes, communities numbered from 0 in the
\* order of their first node.
LouvainPartitions(g) ==
    { f \in [g.nodes -> 0..(Cardinality(g.nodes) - 1)] :
        \A k \in g.nodes :
            f[k] <= (IF k = 1 THEN 0 ELSE MaxOf({ f[j] : j \in 1..(k - 1) }) + 1) }

\* lines 235-242: clusters_dict, the members of a community in node order.
Members(comm, c) == AscendingSeq({ n \in DOMAIN comm : comm[n] = c })

\* the keys of clusters_dict in insertion order
RECURSIVE CommunityOrder(_, _, _)
CommunityOrder(comm, k, acc) ==
    IF k \notin DOMAIN comm THEN acc
    ELSE CommunityOrder(comm, k + 1,
                        IF comm[k] \in Range(acc) THEN acc ELSE Append(acc, comm[k]))

\* types.count(t), line 250
TypeCount(g, members, t) == Cardinality({ i \in 1..Len(members) : g.types[members[i]] = t })

\* max(set(types), key=types.count), line 250: the first type of largest count
\* in the iteration order of a set of strings, which is not fixed.
MostCommonTypes(g, members) ==
    { t \in { g.types[members[i]] : i \in 1..Len(members) } :
        \A u \in EntityTypes : TypeCount(g, members, u) <= TypeCount(g, members, t) }

\* FilterClusters without the size test of line 247.
RECURSIVE FilterClusters_KeepAll(_, _, _, _, _, _)
FilterClusters_KeepAll(g, comm, order, i, minSize, label) ==
    IF i > Len(order) THEN <<>>
    ELSE LET entities == Members(comm, order[i])
         IN  <<[cluster_id    |-> order[i],
                cluster_label |-> label[order[i]],
                size          |-> Len(entities),
                entities      |-> entities]>>
             \o FilterClusters_KeepAll(g, comm, order, i + 1, minSize, label)

\* lines 246-257: the clusters that reach min_cluster_size, in dict order.
RECURSIVE FilterClusters(_, _, _, _, _, _)
FilterClusters(g, comm, order, i, minSize, label) ==
    IF i > Len(order) THEN <<>>
    ELSE LET entities == Members(comm, order[i])
             rest == FilterClusters(g, comm, order, i + 1, minSize, label)
         IN  IF Len(entities) >= minSize
             THEN <<[cluster_id    |-> order[i],
                     cluster_label |-> label[order[i]],
                     size          |-> Len(entities),
                     entities      |-> entities]>> \o rest
             ELSE rest

\* clusters.sort(key=lambda x: -x["size"]), line 260 (stable)
ClusterInsert(s, x) ==
    LET k == Cardinality({ i \in 1..Len(s) : s[i].size >= x.size })
    IN  SubSeq(s, 1, k) \o <<x>> \o SubSeq(s, k + 1, Len(s))

RECURSIVE SortClusters(_)
SortClusters(s) ==
    IF s = <<>> THEN <<>>
    ELSE ClusterInsert(SortClusters(SubSeq(s, 1, Len(s) - 1)), s[Len(s)])

\* lines 234-262 for the dict `communities`
ClustersOf(g, comm, minSize, label) ==
    SortClusters(FilterClusters(g, comm, CommunityOrder(comm, 1, <<>>), 1, minSize, label))

\* the labels line 250 may give to the communities
LabelChoices(g, comm) ==
    { label \in [Range(comm) -> EntityTypes] :
        \A c \in Range(comm) : label[c] \in MostCommonTypes(g, Members(comm, c)) }

\* The typed graphs of at most MaxClusterNodes nodes.
SmallClusterGraphs ==
    UNION { { [nodes |-> g.nodes, edges |-> g.edges, types |-> t] :
                g \in GraphsOn(1..n, MaxClusterEdges, {1}), t \in [1..n -> EntityTypes] } :
            n \in 0..MaxClusterNodes }

\* Graphs of six nodes made of two nodes joined by an edge and of four nodes
\* joined in a path or in a star, with no edge between the two groups.
ScenarioNodes == 1..6

ScenarioEdges(pair, shape) ==
    LET two  == AscendingSeq(pair)
        four == AscendingSeq(ScenarioNodes \ pair)
        edge(a, b) == [src |-> a, dst |-> b, weight |-> 1]
    IN  {edge(two[1], two[2])} \cup
        (IF shape = "path"
         THEN {edge(four[1], four[2]), edge(four[3], four[2]), edge(four[3], four[4])}
         ELSE {edge(four[1], four[2]), edge(four[1], four[3]), edge(four[4], four[1])})

ScenarioGraphs ==
    { [nodes |-> ScenarioNodes, edges |-> ScenarioEdges(pair, shape), types |-> t] :
        pair \in { p \in SUBSET ScenarioNodes : Cardinality(p) = 2 },
        shape \in {"path", "star"},
        t \in [ScenarioNodes -> EntityTypes] }

\* best_partition is drawn for the small graphs only.
ClustersInit ==
    /\ \/ cG \in SmallClusterGraphs /\ cLouvain \in BOOLEAN
       \/ cG \in ScenarioGraphs /\ cLouvain = FALSE
    /\ cMinSize \in MinSizes
    /\ cCommunities = <<>>
    /\ cResult = <<>>
    /\ cPc = "call"

\* lines 215-218
ClustersTooFewNodes ==
    /\ cPc = "call"
    /\ Cardinality(cG.nodes) < cMinSize
    /\ cResult' = <<>>
    /\ cPc' = "done"
    /\ UNCHANGED <<cG, cMinSize, cLouvain, cCommunities, cOthers>>

\* lines 220-226, 234-262: communities from best_partition
ClustersLouvain ==
    /\ cPc = "call"
    /\ ~(Cardinality(cG.nodes) < cMinSize)
    /\ cLouvain
    /\ \E comm \in LouvainPartitions(cG) :
        /\ cCommunities' = comm
        /\ \E label \in LabelChoices(cG, comm) :
            cResult' = ClustersOf(cG, comm, cMinSize, label)
    /\ cPc' = "done"
    /\ UNCHANGED <<cG, cMinSize, cLouvain, cOthers>>

\* lines 220-221, 227-232, 234-262: ImportError, communities are the
\* connected components
ClustersComponents ==
    /\ cPc = "call"
    /\ ~(Cardinality(cG.nodes) < cMinSize)
    /\ ~cLouvain
    /\ cCommunities' = ComponentLabels(cG)
    /\ \E label \in LabelChoices(cG, ComponentLabels(cG)) :
        cResult' = ClustersOf(cG, ComponentLabels(cG), cMinSize, label)
    /\ cPc' = "done"
    /\ UNCHANGED <<cG, cMinSize, cLouvain, cOthers>>

ClustersNext ==
    \/ ClustersTooFewNodes
    \/ ClustersLouvain
    \/ ClustersComponents

ClustersIdle ==
    /\ cG = [nodes |-> {}, edges |-> {}, types |-> <<>>]
    /\ cMinSize = 0
    /\ cLouvain = FALSE
    /\ cCommunities = <<>>
    /\ cResult = <<>>
    /\ cPc = "idle"

(***************************************************************************)
(* EntityExtractionService.extract_entities,                               *)
(* entity_extraction_service.py:33-247.                                    *)
(* A text is a sequence of tokens separated by single spaces.  What the    *)
(* regular expressions of the fallback extractor see of a token is in      *)
(* TokenTable: the word that \b...\b can match (lower-cased, matching is   *)
(* IGNORECASE), whether the token is that word alone, the name of the call *)
(* that [a-z_]+\([^\)]*\) finds in it, and the Chinese terms it contains.  *)
(* Chinese strings are written in pinyin.  Weights are in tenths.  The     *)
(* description of an entity is formatted from its type and name and is     *)
(* left out.                                                               *)
(***************************************************************************)
MentionedWithWeight == 10
VerbWeight == 15
CoOccursWeight == 10

RECURSIVE Concat(_)
Concat(ss) == IF ss = <<>> THEN <<>> ELSE Head(ss) \o Concat(Tail(ss))

\* str.lower() on the strings of the model that have an upper-case letter.
LowerTable ==
    { <<"Python", "python">>, <<"Pandas", "pandas">>, <<"NumPy", "numpy">>,
      <<"Matplotlib", "matplotlib">>, <<"Seaborn", "seaborn">>,
      <<"Scikit-learn", "scikit-learn">>, <<"TensorFlow", "tensorflow">>,
      <<"PyTorch", "pytorch">>, <<"Django", "django">>, <<"Flask", "flask">>,
      <<"FastAPI", "fastapi">>, <<"React", "react">>, <<"Vue", "vue">>,
      <<"JavaScript", "javascript">>, <<"TypeScript", "typescript">>,
      <<"Java", "java">>, <<"C++", "c++">>, <<"Go", "go">>,
      <<"Rust", "rust">>, <<"SQL", "sql">>, <<"PostgreSQL", "postgresql">>,
      <<"MySQL", "mysql">>, <<"MongoDB", "mongodb">>, <<"Redis", "redis">>,
      <<"Docker", "docker">>, <<"Kubernetes", "kubernetes">>,
      <<"Git", "git">>, <<"GitHub", "github">>, <<"AWS", "aws">>,
      <<"Azure", "azure">>, <<"GCP", "gcp">>, <<"Linux", "linux">>,
      <<"API", "api">>, <<"REST", "rest">>, <<"GraphQL", "graphql">>,
      <<"Machine Learning", "machine learning">>,
      <<"Deep Learning", "deep learning">>, <<"AI", "ai">>,
      <<"NLP", "nlp">>, <<"CV", "cv">>,
      <<"Google", "google">>, <<"Alice", "alice">> }

LowerCase ==
    [s \in {p[1] : p \in LowerTable} |->
        (CHOOSE p \in LowerTable : p[1] = s)[2]]

Lower(s) == IF s \in DOMAIN LowerCase THEN LowerCase[s] ELSE s

tech_keywords ==
    << "Python", "Pandas", "NumPy", "Matplotlib", "Seaborn", "Scikit-learn",
       "TensorFlow", "PyTorch", "Django", "Flask", "FastAPI", "React", "Vue",
       "JavaScript", "TypeScript", "Java", "C++", "Go", "Rust", "SQL",
       "PostgreSQL", "MySQL", "MongoDB", "Redis", "Docker", "Kubernetes",
       "Git", "GitHub", "AWS", "Azure", "GCP", "Linux", "API", "REST",
       "GraphQL", "Machine Learning", "Deep Learning", "AI", "NLP", "CV" >>

\* The words of a lower-cased keyword: re.escape keeps the single space of
\* the two-word keywords, so they match two adjacent tokens.
KeywordWords(kw) ==
    CASE Lower(kw) = "machine learning" -> <<"machine", "learning">>
      [] Lower(kw) = "deep learning" -> <<"deep", "learning">>
      [] OTHER -> <<Lower(kw)>>

chinese_tech_terms ==
    << "shujufenxi", "jiqixuexi", "shenduxuexi", "rengongzhineng", "shujuku",
       "qianduan", "houduan", "quanzhan", "kaifa", "biancheng", "suanfa",
       "jiagou", "weifuwu", "rongqihua", "yunjisuan", "dashuju",
       "shujuwajue" >>

TokenTable ==
    { [raw |-> "love", word |-> "love", pure |-> TRUE, method |-> "",
       terms |-> {}],
      [raw |-> "Python", word |-> "python", pure |-> TRUE, method |-> "",
       terms |-> {}],
      [raw |-> "python", word |-> "python", pure |-> TRUE, method |-> "",
       terms |-> {}],
      [raw |-> "Docker", word |-> "docker", pure |-> TRUE, method |-> "",
       terms |-> {}],
      [raw |-> "redis", word |-> "redis", pure |-> TRUE, method |-> "",
       terms |-> {}],
      [raw |-> "Machine", word |-> "machine", pure |-> TRUE, method |-> "",
       terms |-> {}],
      [raw |-> "learning", word |-> "learning", pure |-> TRUE, method |-> "",
       terms |-> {}],
      [raw |-> "python()", word |-> "python", pure |-> FALSE,
       method |-> "python", terms |-> {}],
      [raw |-> "foo()", word |-> "foo", pure |-> FALSE, method |-> "foo",
       terms |-> {}],
      \* "da shuju fenxi" written without spaces: it contains two terms
      [raw |-> "dashujufenxi", word |-> "", pure |-> FALSE, method |-> "",
       terms |-> {"dashuju", "shujufenxi"}] }

Vocabulary == { t.raw : t \in TokenTable }
TokenInfo == [raw \in Vocabulary |-> CHOOSE t \in TokenTable : t.raw = raw]

Texts == UNION { [1..n -> Vocabulary] : n \in 0..MaxTokens }

\* re.search(r'\b' + re.escape(keyword) + r'\b', text, re.IGNORECASE)
KeywordMatches(kw, text) ==
    LET w == KeywordWords(kw)
    IN  \E i \in 1..Len(text) :
            \A k \in 1..Len(w) :
                /\ i + k - 1 <= Len(text)
                /\ TokenInfo[text[i + k - 1]].word = w[k]
                /\ k < Len(w) => TokenInfo[text[i + k - 1]].pure

\* re.findall(r'\b([a-z_]+\([^\)]*\))', text), each split('(')[0]
MethodNames(text) ==
    Concat([i \in 1..Len(text) |->
        IF TokenInfo[text[i]].method # "" THEN <<TokenInfo[text[i]].method>>
        ELSE <<>>])

NoState == [entities |-> <<>>, entity_map |-> <<>>]

\* entities.append(...); entity_map[key] = len(entities) - 1
AddEntity(st, type, name, key) ==
    [entities |-> Append(st.entities,
                         [entity_type |-> type, entity_name |-> name]),
     entity_map |-> (key :> (Len(st.entities) + 1)) @@ st.entity_map]

RECURSIVE FallbackKeywords(_, _, _)
FallbackKeywords(text, i, st) ==
    IF i > Len(tech_keywords) THEN st
    ELSE LET keyword == tech_keywords[i]
         IN  FallbackKeywords(text, i + 1,
                 IF /\ KeywordMatches(keyword, text)
                    /\ Lower(keyword) \notin DOMAIN st.entity_map
                 THEN AddEntity(st, "technology", keyword, Lower(keyword))
                 ELSE st)

RECURSIVE FallbackChinese(_, _, _)
FallbackChinese(text, i, st) ==
    IF i > Len(chinese_tech_terms) THEN st
    ELSE LET term == chinese_tech_terms[i]
         IN  FallbackChinese(text, i + 1,
                 IF /\ \E k \in 1..Len(text) : term \in TokenInfo[text[k]].terms
                    /\ term \notin DOMAIN st.entity_map
                 THEN AddEntity(st, "concept", term, term)
                 ELSE st)

RECURSIVE FallbackMethods(_, _, _)
FallbackMethods(methods, i, st) ==
    IF i > Len(methods) THEN st
    ELSE LET method_name == methods[i]
         IN  FallbackMethods(methods, i + 1,
                 IF method_name # "" /\ method_name \notin DOMAIN st.entity_map
                 THEN AddEntity(st, "method", method_name, method_name)
                 ELSE st)

Relationship(src, dst, type, weight) ==
    [source_entity_name |-> src, target_entity_name |-> dst,
     relationship_type |-> type, weight |-> weight]

\* The same loops with range(i + 1, min(i + 2, len(entities))).
FallbackRelationships_NextOnly(entities) ==
    Concat([i \in 1..(Len(entities) - 1) |->
        [k \in 1..(Min(i + 1, Len(entities)) - i) |->
            Relationship(entities[i].entity_name, entities[i + k].entity_name,
                         "mentioned_with", MentionedWithWeight)]])

\* for i in range(len(entities) - 1):
\*     for j in range(i + 1, min(i + 3, len(entities))):
FallbackRelationships(entities) ==
    Concat([i \in 1..(Len(entities) - 1) |->
        [k \in 1..(Min(i + 2, Len(entities)) - i) |->
            Relationship(entities[i].entity_name, entities[i + k].entity_name,
                         "mentioned_with", MentionedWithWeight)]])

extract_with_fallback(text, extract_relationships) ==
    LET st == FallbackMethods(MethodNames(text), 1,
                  FallbackChinese(text, 1,
                      FallbackKeywords(text, 1, NoState)))
    IN  [entities |-> st.entities,
         relationships |->
             IF extract_relationships /\ Len(st.entities) > 1
             THEN FallbackRelationships(st.entities)
             ELSE <<>>]

(***************************************************************************)
(* The linguistic strategy.  The pipeline is a library call; of its result *)
(* the code reads doc.ents (text, label_, and the sentence each entity is  *)
(* in), doc.noun_chunks (text) and, of the tokens, the verbs with the text *)
(* of their subject and object children.  A doc is any such value.         *)
(***************************************************************************)
\* What str.strip(), len() and len(str.split()) give on the span texts.
SpanTable ==
    { [raw |-> "Google", stripped |-> "Google", chars |-> 6, words |-> 1],
      [raw |-> "google", stripped |-> "google", chars |-> 6, words |-> 1],
      [raw |-> "Alice ", stripped |-> "Alice", chars |-> 5, words |-> 1],
      [raw |-> "Alice", stripped |-> "Alice", chars |-> 5, words |-> 1],
      [raw |-> "X", stripped |-> "X", chars |-> 1, words |-> 1],
      [raw |-> "it", stripped |-> "it", chars |-> 2, words |-> 1],
      [raw |-> "the new project", stripped |-> "the new project",
       chars |-> 15, words |-> 3],
      [raw |-> "a very long noun phrase", stripped |-> "a very long noun phrase",
       chars |-> 23, words |-> 5] }

SpanInfo ==
    [raw \in {t.raw : t \in SpanTable} |->
        CHOOSE t \in SpanTable : t.raw = raw]

EntSpans ==
    { [text |-> "Google", label_ |-> "ORG"],
      [text |-> "google", label_ |-> "NORP"],
      [text |-> "Alice ", label_ |-> "PERSON"],
      [text |-> "X", label_ |-> "PRODUCT"] }

ChunkTexts == { "google", "it", "the new project", "a very long noun phrase" }
ChildTexts == { "Google", "Alice" }
Sentences == { 1, 2 }

Ents ==
    { [text |-> s.text, label_ |-> s.label_, sent |-> k] :
        s \in EntSpans, k \in Sentences }

\* doc.ents is in document order, so the sentences do not decrease.
EntSeqs ==
    { e \in UNION { [1..n -> Ents] : n \in 0..MaxEnts } :
        \A i \in 1..(Len(e) - 1) : e[i].sent <= e[i + 1].sent }

Verbs ==
    [lemma_ : {"use"},
     subjects : UNION { [1..n -> ChildTexts] : n \in 0..1 },
     objects : UNION { [1..n -> ChildTexts] : n \in 0..1 }]

Docs ==
    [ents : EntSeqs,
     noun_chunks : UNION { [1..n -> ChunkTexts] : n \in 0..MaxChunks },
     verbs : UNION { [1..n -> Verbs] : n \in 0..1 }]

NoDoc == [ents |-> <<>>, noun_chunks |-> <<>>, verbs |-> <<>>]

map_spacy_entity_type(spacy_label) ==
    CASE spacy_label = "PERSON" -> "person"
      [] spacy_label = "ORG" -> "organization"
      [] spacy_label \in {"GPE", "LOC"} -> "location"
      [] spacy_label = "PRODUCT" -> "product"
      [] spacy_label = "EVENT" -> "event"
      [] spacy_label = "WORK_OF_ART" -> "work"
      [] spacy_label = "LAW" -> "law"
      [] spacy_label = "LANGUAGE" -> "language"
      [] spacy_label = "DATE" -> "date"
      [] spacy_label = "TIME" -> "time"
      [] spacy_label \in {"PERCENT", "MONEY", "QUANTITY", "ORDINAL",
                          "CARDINAL"} -> "metric"
      [] OTHER -> "concept"

RECURSIVE SpacyNamedEntities(_, _, _)
SpacyNamedEntities(ents, i, st) ==
    IF i > Len(ents) THEN st
    ELSE LET ent == ents[i]
             entity_name == SpanInfo[ent.text].stripped
         IN  SpacyNamedEntities(ents, i + 1,
                 IF entity_name # "" /\ SpanInfo[ent.text].chars > 1
                 THEN AddEntity(st, map_spacy_entity_type(ent.label_),
                                entity_name, Lower(entity_name))
                 ELSE st)

RECURSIVE SpacyNounChunks(_, _, _)
SpacyNounChunks(chunks, i, st) ==
    IF i > Len(chunks) THEN st
    ELSE LET chunk_text == SpanInfo[chunks[i]].stripped
         IN  SpacyNounChunks(chunks, i + 1,
                 IF /\ Lower(chunk_text) \notin DOMAIN st.entity_map
                    /\ SpanInfo[chunks[i]].chars > 2
                    /\ SpanInfo[chunks[i]].words <= 4
                 THEN AddEntity(st, "concept", chunk_text, Lower(chunk_text))
                 ELSE st)

\* for token in doc: if token.pos_ == "VERB": ...
VerbRelationships(doc, entities, entity_map) ==
    Concat([v \in 1..Len(doc.verbs) |->
        LET token == doc.verbs[v]
        IN  Concat([a \in 1..Len(token.subjects) |->
                Concat([b \in 1..Len(token.objects) |->
                    LET subj_text == Lower(token.subjects[a])
                        obj_text == Lower(token.objects[b])
                    IN  IF /\ subj_text \in DOMAIN entity_map
                           /\ obj_text \in DOMAIN entity_map
                        THEN << Relationship(
                                  entities[entity_map[subj_text]].entity_name,
                                  entities[entity_map[obj_text]].entity_name,
                                  token.lemma_, VerbWeight) >>
                        ELSE <<>>])])])

\* The list sent_entities of one sentence.
SentEntities(doc, sent, entities, entity_map) ==
    Concat([i \in 1..Len(doc.ents) |->
        LET ent_text == Lower(SpanInfo[doc.ents[i].text].stripped)
        IN  IF doc.ents[i].sent = sent /\ ent_text \in DOMAIN entity_map
            THEN <<entities[entity_map[ent_text]].entity_name>>
            ELSE <<>>])

\* for sent in doc.sents: every pair i < j of sent_entities
CoOccurrenceRelationships(doc, entities, entity_map) ==
    Concat([sent \in 1..Cardinality(Sentences) |->
        LET sent_entities == SentEntities(doc, sent, entities, entity_map)
        IN  Concat([i \in 1..(Len(sent_entities) - 1) |->
                [k \in 1..(Len(sent_entities) - i) |->
                    Relationship(sent_entities[i], sent_entities[i + k],
                                 "co_occurs_with", CoOccursWeight)]])])

extract_relationships_from_doc(doc, entities, entity_map) ==
    VerbRelationships(doc, entities, entity_map)
        \o CoOccurrenceRelationships(doc, entities, entity_map)

extract_with_spacy(doc, extract_relationships) ==
    LET st == SpacyNounChunks(doc.noun_chunks, 1,
                  SpacyNamedEntities(doc.ents, 1, NoState))
    IN  [entities |-> st.entities,
         relationships |->
             IF extract_relationships
             THEN extract_relationships_from_doc(doc, st.entities,
                                                 st.entity_map)
             ELSE <<>>]

ExtractInit ==
    /\ xSpacy \in BOOLEAN
    /\ IF xSpacy THEN xDoc \in Docs /\ xText = <<>>
                 ELSE xText \in Texts /\ xDoc = NoDoc
    /\ xWantRel \in BOOLEAN
    /\ xEntities = <<>>
    /\ xRelationships = <<>>
    /\ xPc = "call"

\* extract_entities with a loaded model (line 50-51)
ExtractWithSpacy ==
    /\ xPc = "call" /\ xSpacy
    /\ LET r == extract_with_spacy(xDoc, xWantRel)
       IN  /\ xEntities' = r.entities
           /\ xRelationships' = r.relationships
    /\ xPc' = "done"
    /\ UNCHANGED <<xSpacy, xText, xDoc, xWantRel, xOthers>>

\* extract_entities without a model (line 52-53)
ExtractWithFallback ==
    /\ xPc = "call" /\ ~xSpacy
    /\ LET r == extract_with_fallback(xText, xWantRel)
       IN  /\ xEntities' = r.entities
           /\ xRelationships' = r.relationships
    /\ xPc' = "done"
    /\ UNCHANGED <<xSpacy, xText, xDoc, xWantRel, xOthers>>

ExtractIdle ==
    /\ xSpacy = FALSE
    /\ xText = <<>>
    /\ xDoc = NoDoc
    /\ xWantRel = FALSE
    /\ xEntities = <<>>
    /\ xRelationships = <<>>
    /\ xPc = "idle"

(***************************************************************************)
(* save_conversation: call_tool, server_http.py:306-402 with 568-575, and  *)
(* handle_save_conversation_http, server_http.py:1008-1146.                *)
(* The database holds the committed rows, which is what every other        *)
(* session reads.  A process is a server process with its own SQLAlchemy   *)
(* Session (SessionLocal, database.py:154: autoflush off, expire_on_commit *)
(* on); a handler has no await between db.add and db.close, so a process   *)
(* runs one request at a time.  Of the Session the model keeps             *)
(*   tx         "none" | "active" | "inactive": no transaction, an open    *)
(*              one, or one rolled back by a failed flush, in which the    *)
(*              Session refuses SQL until rollback() is called;            *)
(*   convLoaded whether the attributes of `conversation` are loaded:       *)
(*              commit and rollback expire them, reading an expired        *)
(*              attribute issues a SELECT;                                 *)
(*   flushed    the Entity rows inserted in the open transaction.          *)
(* A flush or commit may fail (a value too long for its column, a lost     *)
(* connection).  get_embedding never raises (embeddings.py:28-37).  The    *)
(* extractor is the fallback strategy; it may raise.  All requests are of  *)
(* one user.  From db.add(conversation) on the two handlers run the same   *)
(* statements, so a request does not record which of them serves it.       *)
(***************************************************************************)
Processes == {"p1", "p2"}
Handlers == {"tool", "http"}
Contents == { <<>>, <<"love">>, <<"Python", "Docker">> }
NoResult == [kind |-> "none"]

\* What extract_entities(text=content, extract_relationships=True) returns.
ExtractionOf == [c \in Contents |-> extract_with_fallback(c, TRUE)]

IdleProcess ==
    [pc |-> "idle", user_id |-> "u1", content |-> <<>>,
     conversation_id |-> 0, entities_data |-> <<>>,
     relationships_data |-> <<>>, i |-> 1, entity_id_map |-> <<>>,
     tx |-> "none", convLoaded |-> FALSE, flushed |-> {}, failed |-> "",
     result |-> NoResult]

\* The rows of one conversation among entity rows E and relationship rows R.
EntitiesOf(E, c) == { e \in E : e.conversation_id = c }
RelationshipsOf(E, R, c) ==
    { r \in R : \E e \in EntitiesOf(E, c) :
                    e.id \in {r.source_entity_id, r.target_entity_id} }

\* The relationships of relationships_data whose two names were saved.
SavedRelationships(relationships_data, entity_id_map) ==
    SelectSeq(relationships_data,
              LAMBDA rel : /\ rel.source_entity_name \in DOMAIN entity_id_map
                           /\ rel.target_entity_name \in DOMAIN entity_id_map)

IngestInit ==
    /\ dbConversations = {}
    /\ dbEntities = {}
    /\ dbRelationships = {}
    /\ dbSeq = [conversations |-> 0, entities |-> 0, relationships |-> 0]
    /\ proc = [p \in Processes |-> IdleProcess]
    /\ rd = [pc |-> "idle", user_id |-> "u1", entities |-> {},
             relationships |-> {}]

\* /api/save answers 400 without content (line 1044-1045), before any write.
SaveRejected(p) ==
    /\ proc[p].pc = "idle"
    /\ dbSeq.conversations < MaxSaves
    /\ proc' = [proc EXCEPT ![p] =
                    [IdleProcess EXCEPT !.pc = "finally",
                                        !.result = [kind |-> "bad_request"]]]
    /\ UNCHANGED <<dbConversations, dbEntities, dbRelationships, dbSeq, rd,
                   inOthers>>

\* db.add(conversation); db.commit(); db.refresh(conversation)
SaveConversation(p) ==
    /\ proc[p].pc = "idle"
    /\ dbSeq.conversations < MaxSaves
    /\ \E h \in Handlers, c \in Contents :
        /\ h = "http" => c # <<>>
        /\ LET id == dbSeq.conversations + 1
           IN  /\ dbConversations' = dbConversations \cup
                      {[id |-> id, user_id |-> IdleProcess.user_id,
                        content |-> c]}
               /\ dbSeq' = [dbSeq EXCEPT !.conversations = id]
               /\ proc' = [proc EXCEPT ![p] =
                      [IdleProcess EXCEPT !.pc = "extract",
                                          !.content = c,
                                          !.conversation_id = id,
                                          !.tx = "active",
                                          !.convLoaded = TRUE]]
    /\ UNCHANGED <<dbEntities, dbRelationships, rd, inOthers>>

\* The first commit fails: the outer handler reports the error.
SaveConversationFails(p) ==
    /\ proc[p].pc = "idle"
    /\ dbSeq.conversations < MaxSaves
    /\ \E h \in Handlers, c \in Contents :
        /\ h = "http" => c # <<>>
        /\ proc' = [proc EXCEPT ![p] =
               [IdleProcess EXCEPT !.pc = "outer",
                                   !.content = c,
                                   !.failed = "conversation"]]
    /\ dbSeq' = [dbSeq EXCEPT !.conversations = @ + 1]
    /\ UNCHANGED <<dbConversations, dbEntities, dbRelationships, rd,
                   inOthers>>

\* entity_extraction_service.extract_entities(...) returns
Extract(p) ==
    /\ proc[p].pc = "extract"
    /\ LET r == ExtractionOf[proc[p].content]
       IN  proc' = [proc EXCEPT ![p].pc = "entities",
                                ![p].entities_data = r.entities,
                                ![p].relationships_data = r.relationships]
    /\ UNCHANGED <<dbConversations, dbEntities, dbRelationships, dbSeq, rd,
                   inOthers>>

\* extract_entities raises: nothing was written yet
ExtractRaises(p) ==
    /\ proc[p].pc = "extract"
    /\ proc' = [proc EXCEPT ![p].pc = "except", ![p].failed = "extraction"]
    /\ UNCHANGED <<dbConversations, dbEntities, dbRelationships, dbSeq, rd,
                   inOthers>>

EntityRow(id, p, entity_data) ==
    [id |-> id, conversation_id |-> proc[p].conversation_id,
     entity_name |-> entity_data.entity_name]

\* The same step with db.commit() in place of db.flush().
FlushEntity_Commits(p) ==
    /\ proc[p].pc = "entities"
    /\ proc[p].i <= Len(proc[p].entities_data)
    /\ LET entity_data == proc[p].entities_data[proc[p].i]
           id == dbSeq.entities + 1
       IN  /\ dbSeq' = [dbSeq EXCEPT !.entities = id]
           /\ dbEntities' = dbEntities \cup {EntityRow(id, p, entity_data)}
           /\ proc' = [proc EXCEPT
                  ![p].i = @ + 1,
                  ![p].entity_id_map =
                      (entity_data.entity_name :> id) @@ @]
    /\ UNCHANGED <<dbConversations, dbRelationships, rd, inOthers>>

\* One round of the entity loop: db.add(entity); db.flush();
\* entity_id_map[name] = entity.id  (lines 338-356)
FlushEntity(p) ==
    /\ proc[p].pc = "entities"
    /\ proc[p].i <= Len(proc[p].entities_data)
    /\ LET entity_data == proc[p].entities_data[proc[p].i]
           id == dbSeq.entities + 1
       IN  /\ dbSeq' = [dbSeq EXCEPT !.entities = id]
           /\ dbEntities' = dbEntities
           /\ proc' = [proc EXCEPT
                  ![p].i = @ + 1,
                  ![p].flushed = @ \cup {EntityRow(id, p, entity_data)},
                  ![p].entity_id_map =
                      (entity_data.entity_name :> id) @@ @]
    /\ UNCHANGED <<dbConversations, dbRelationships, rd, inOthers>>

\* db.flush() raises: the Session rolls the transaction back, expires every
\* object and stays inactive.
FlushEntityFails(p) ==
    /\ proc[p].pc = "entities"
    /\ proc[p].i <= Len(proc[p].entities_data)
    /\ proc' = [proc EXCEPT ![p].pc = "except", ![p].failed = "flush",
                            ![p].tx = "inactive", ![p].convLoaded = FALSE,
                            ![p].flushed = {}]
    /\ UNCHANGED <<dbConversations, dbEntities, dbRelationships, dbSeq, rd,
                   inOthers>>

\* The relationship loop and db.commit() (lines 359-388): the flushed
\* entities and the added relationships become visible together.
CommitBatch(p) ==
    /\ proc[p].pc = "entities"
    /\ proc[p].i > Len(proc[p].entities_data)
    /\ LET saved == SavedRelationships(proc[p].relationships_data,
                                       proc[p].entity_id_map)
           rows == { [id |-> dbSeq.relationships + k,
                      source_entity_id |->
                          proc[p].entity_id_map[saved[k].source_entity_name],
                      target_entity_id |->
                          proc[p].entity_id_map[saved[k].target_entity_name],
                      relationship_type |-> saved[k].relationship_type,
                      weight |-> saved[k].weight] :
                     k \in 1..Len(saved) }
       IN  /\ dbEntities' = dbEntities \cup proc[p].flushed
           /\ dbRelationships' = dbRelationships \cup rows
           /\ dbSeq' = [dbSeq EXCEPT !.relationships = @ + Len(saved)]
           /\ proc' = [proc EXCEPT
                  ![p].pc = "finally", ![p].flushed = {},
                  ![p].tx = "active", ![p].convLoaded = TRUE,
                  ![p].result =
                      [kind |-> "success",
                       conversation_id |-> proc[p].conversation_id,
                       entities_extracted |-> Len(proc[p].entities_data),
                       relationships_extracted |-> Len(saved)]]
    /\ UNCHANGED <<dbConversations, rd, inOthers>>

\* db.commit() raises: the transaction is rolled back and closed, every
\* object is expired, the Session can begin a new transaction.
CommitBatchFails(p) ==
    /\ proc[p].pc = "entities"
    /\ proc[p].i > Len(proc[p].entities_data)
    /\ proc' = [proc EXCEPT ![p].pc = "except", ![p].failed = "commit",
                            ![p].tx = "none", ![p].convLoaded = FALSE,
                            ![p].flushed = {}]
    /\ UNCHANGED <<dbConversations, dbEntities, dbRelationships, dbSeq, rd,
                   inOthers>>

\* The inner handler (lines 390-400) builds the result from
\* conversation.id: an expired attribute is reloaded, which raises in an
\* inactive Session.
HandleExtractionError(p) ==
    /\ proc[p].pc = "except"
    /\ IF ~proc[p].convLoaded /\ proc[p].tx = "inactive"
       THEN proc' = [proc EXCEPT ![p].pc = "outer"]
       ELSE proc' = [proc EXCEPT
                ![p].pc = "finally", ![p].tx = "active",
                ![p].convLoaded = TRUE,
                ![p].result =
                    [kind |-> "soft",
                     conversation_id |-> proc[p].conversation_id,
                     entities_extracted |-> 0,
                     relationships_extracted |-> 0]]
    /\ UNCHANGED <<dbConversations, dbEntities, dbRelationships, dbSeq, rd,
                   inOthers>>

\* except Exception as e: the error result (lines 568-572, 1142-1144)
OuterExcept(p) ==
    /\ proc[p].pc = "outer"
    /\ proc' = [proc EXCEPT ![p].pc = "finally",
                            ![p].result = [kind |-> "error"]]
    /\ UNCHANGED <<dbConversations, dbEntities, dbRelationships, dbSeq, rd,
                   inOthers>>

\* finally: db.close() rolls back what was not committed.  The locals of
\* the handler are gone; the model keeps what the request did.
CloseSession(p) ==
    /\ proc[p].pc = "finally"
    /\ proc' = [proc EXCEPT ![p] =
           [IdleProcess EXCEPT !.conversation_id = proc[p].conversation_id,
                               !.i = proc[p].i,
                               !.failed = proc[p].failed]]
    /\ UNCHANGED <<dbConversations, dbEntities, dbRelationships, dbSeq, rd,
                   inOthers>>

\* A reader in another session: the two queries of build_user_graph
\* (graph_service.py:29-44), each reading the rows committed at its time.
ReaderQueryEntities ==
    /\ rd.pc = "idle"
    /\ rd' = [rd EXCEPT
               !.pc = "relationships",
               !.entities =
                   { e \in dbEntities :
                       \E c \in dbConversations :
                           /\ c.id = e.conversation_id
                           /\ c.user_id = rd.user_id }]
    /\ UNCHANGED <<dbConversations, dbEntities, dbRelationships, dbSeq, proc,
                   inOthers>>

ReaderQueryRelationships ==
    /\ rd.pc = "relationships"
    /\ LET entity_ids == { e.id : e \in rd.entities }
       IN  rd' = [rd EXCEPT
               !.pc = "done",
               !.relationships =
                   { r \in dbRelationships :
                       /\ r.source_entity_id \in entity_ids
                       /\ r.target_entity_id \in entity_ids }]
    /\ UNCHANGED <<dbConversations, dbEntities, dbRelationships, dbSeq, proc,
                   inOthers>>

ReaderReturns ==
    /\ rd.pc = "done"
    /\ rd' = [pc |-> "idle", user_id |-> "u1", entities |-> {},
              relationships |-> {}]
    /\ UNCHANGED <<dbConversations, dbEntities, dbRelationships, dbSeq, proc,
                   inOthers>>

IngestNext ==
    \/ \E p \in Processes : SaveRejected(p)
    \/ \E p \in Processes : SaveConversation(p)
    \/ \E p \in Processes : SaveConversationFails(p)
    \/ \E p \in Processes : Extract(p)
    \/ \E p \in Processes : ExtractRaises(p)
    \/ \E p \in Processes : FlushEntity(p)
    \/ \E p \in Processes : FlushEntityFails(p)
    \/ \E p \in Processes : CommitBatch(p)
    \/ \E p \in Processes : CommitBatchFails(p)
    \/ \E p \in Processes : HandleExtractionError(p)
    \/ \E p \in Processes : OuterExcept(p)
    \/ \E p \in Processes : CloseSession(p)
    \/ ReaderQueryEntities
    \/ ReaderQueryRelationships
    \/ ReaderReturns

IngestIdle ==
    /\ dbConversations = {}
    /\ dbEntities = {}
    /\ dbRelationships = {}
    /\ dbSeq = [conversations |-> 0, entities |-> 0, relationships |-> 0]
    /\ proc = [p \in Processes |-> [IdleProcess EXCEPT !.pc = "off"]]
    /\ rd = [pc |-> "off", user_id |-> "u1", entities |-> {},
             relationships |-> {}]

(***************************************************************************)
(* RAGService.get_recent_context, rag_service.py:143-184, over the         *)
(* conversations that save_conversation inserts.  rcTable lists the rows   *)
(* in the order they were created; the id of a row is its index.           *)
(* created_at is datetime.utcnow() read by the handler before the commit   *)
(* (server_http.py:321): a wall clock read by any server process, so two   *)
(* rows may carry the same value and a later row an earlier one.  Of a     *)
(* returned dict the model keeps the id.                                   *)
(***************************************************************************)
Times == 1..MaxTime
RecentLimits == {0 - 1} \cup (0..MaxRecentRows)

\* reversed(conversations) read as conversations.
Reversed_Identity(s) == s

\* reversed(conversations), line 183
Reversed(s) == [i \in 1..Len(s) |-> s[Len(s) + 1 - i]]

\* The filters of lines 162-167; `if session_id:` skips None.
RecentFilter(args) ==
    { id \in DOMAIN rcTable :
        /\ rcTable[id].user_id = args.user_id
        /\ (args.session_id # NoSession =>
                rcTable[id].session_id = args.session_id) }

\* order_by(Conversation.created_at.desc()): rows of equal created_at come
\* in any order.
RecentOrders(S) ==
    { q \in [1..Cardinality(S) -> S] :
        /\ \A i, j \in DOMAIN q : i # j => q[i] # q[j]
        /\ \A i, j \in DOMAIN q :
               i < j => rcTable[q[i]].created_at >= rcTable[q[j]].created_at }

RecentInit ==
    /\ rcTable = <<>>
    /\ rcArgs = [user_id |-> "u1", session_id |-> NoSession, limit |-> 0]
    /\ rcResult = <<>>
    /\ rcPc = "idle"

\* A conversation is saved (server_http.py:313-325).
RecentSave ==
    /\ rcPc = "idle"
    /\ Len(rcTable) < MaxRecentRows
    /\ \E u \in Users, s \in Sessions, t \in Times :
        rcTable' = Append(rcTable, [user_id |-> u, session_id |-> s,
                                    created_at |-> t])
    /\ UNCHANGED <<rcArgs, rcResult, rcPc, rcOthers>>

get_recent_context(args, q) ==
    Reversed(SubSeq(q, 1, Min(args.limit, Len(q))))

RecentContext ==
    /\ rcPc = "idle"
    /\ \E s \in {NoSession, "s1"}, l \in RecentLimits :
        LET args == [user_id |-> "u1", session_id |-> s, limit |-> l]
        IN  /\ l >= 0
            /\ rcArgs' = args
            /\ \E q \in RecentOrders(RecentFilter(args)) :
                   rcResult' = get_recent_context(args, q)
    /\ rcPc' = "done"
    /\ UNCHANGED <<rcTable, rcOthers>>

\* .limit(limit) with limit < 0: the store rejects a negative LIMIT.
RecentContextRaises ==
    /\ rcPc = "idle"
    /\ \E s \in {NoSession, "s1"} :
        rcArgs' = [user_id |-> "u1", session_id |-> s, limit |-> 0 - 1]
    /\ rcPc' = "error"
    /\ UNCHANGED <<rcTable, rcResult, rcOthers>>

\* The call is over; the next one may follow.
RecentReturns ==
    /\ rcPc \in {"done", "error"}
    /\ rcArgs' = [user_id |-> "u1", session_id |-> NoSession, limit |-> 0]
    /\ rcResult' = <<>>
    /\ rcPc' = "idle"
    /\ UNCHANGED <<rcTable, rcOthers>>

RecentNext ==
    \/ RecentSave
    \/ RecentContext
    \/ RecentContextRaises
    \/ RecentReturns

RecentIdle ==
    /\ rcTable = <<>>
    /\ rcArgs = [user_id |-> "u1", session_id |-> NoSession, limit |-> 0]
    /\ rcResult = <<>>
    /\ rcPc = "off"

(***************************************************************************)
(* The store sessions of the request handlers of server_http.py and of     *)
(* get_db (database.py:169-175).  Every handler opens its session with     *)
(* db = SessionLocal(); where it calls db.close() differs: all handlers    *)
(* but one close in a `finally:` clause, handle_health (server_http.py:    *)
(* 991-997) closes as a statement of the try body, after db.execute.       *)
(* Requests are served concurrently, one handler per request.              *)
(***************************************************************************)
Requests == {"r1", "r2"}

SessionHandlers ==
    { "extract_and_verify_token", "call_tool", "read_resource",
      "handle_register", "handle_login", "handle_verify_token",
      "handle_update_password", "handle_get_user_info",
      "handle_generate_api_key", "handle_list_api_keys",
      "handle_revoke_api_key", "handle_health",
      "handle_save_conversation_http", "get_db" }

\* Where the handler calls db.close(): in the finally clause of the try
\* that follows SessionLocal(), or as a statement of the try body.
CloseSite ==
    [h \in SessionHandlers |->
        IF h = "handle_health" THEN "body" ELSE "finally"]

\* Whether the block that uses the session leaves by a return statement;
\* the others run off its end.
ReturnsInBlock ==
    [h \in SessionHandlers |->
        h \notin {"handle_verify_token", "handle_health", "get_db"}]

NoRequest == [handler |-> "none", pc |-> "idle", db |-> "none", exit |-> "none"]

SessionsInit == sess = [r \in Requests |-> NoRequest]

\* db = SessionLocal()
OpenSession(r) ==
    /\ sess[r].pc = "idle"
    /\ \E h \in SessionHandlers :
           sess' = [sess EXCEPT ![r] =
                       [handler |-> h, pc |-> "in_use", db |-> "open",
                        exit |-> "none"]]
    /\ UNCHANGED seOthers

\* A return statement inside the try block: the finally clause runs next.
ReturnInBlock(r) ==
    /\ sess[r].pc = "in_use"
    /\ CloseSite[sess[r].handler] = "finally"
    /\ ReturnsInBlock[sess[r].handler]
    /\ sess' = [sess EXCEPT ![r].pc = "finally", ![r].exit = "return"]
    /\ UNCHANGED seOthers

\* The try block runs to its end: the finally clause runs next.
EndOfBlock(r) ==
    /\ sess[r].pc = "in_use"
    /\ CloseSite[sess[r].handler] = "finally"
    /\ ~ReturnsInBlock[sess[r].handler]
    /\ sess' = [sess EXCEPT ![r].pc = "finally", ![r].exit = "end"]
    /\ UNCHANGED seOthers

\* An exception is raised while the session is in use: control goes to the
\* finally clause if the try has one, and to the except clause otherwise.
RaiseInBlock(r) ==
    /\ sess[r].pc = "in_use"
    /\ sess' = [sess EXCEPT
                   ![r].pc = IF CloseSite[sess[r].handler] = "finally"
                             THEN "finally" ELSE "except",
                   ![r].exit = "exception"]
    /\ UNCHANGED seOthers

\* finally: db.close()
CloseInFinally(r) ==
    /\ sess[r].pc = "finally"
    /\ sess' = [sess EXCEPT ![r].pc = "exited", ![r].db = "closed"]
    /\ UNCHANGED seOthers

\* handle_health: db.execute(text("SELECT 1")) returned; db.close() is the
\* next statement of the try body (server_http.py:993-995).
CloseInBody(r) ==
    /\ sess[r].pc = "in_use"
    /\ CloseSite[sess[r].handler] = "body"
    /\ sess' = [sess EXCEPT ![r].pc = "exited", ![r].db = "closed",
                            ![r].exit = "end"]
    /\ UNCHANGED seOthers

\* handle_health: except Exception as e: logger.error(...), then the
\* response is returned (server_http.py:996-1005).
ExceptWithoutClose(r) ==
    /\ sess[r].pc = "except"
    /\ sess' = [sess EXCEPT ![r].pc = "exited"]
    /\ UNCHANGED seOthers

SessionsNext ==
    \/ \E r \in Requests : OpenSession(r)
    \/ \E r \in Requests : ReturnInBlock(r)
    \/ \E r \in Requests : EndOfBlock(r)
    \/ \E r \in Requests : RaiseInBlock(r)
    \/ \E r \in Requests : CloseInFinally(r)
    \/ \E r \in Requests : CloseInBody(r)
    \/ \E r \in Requests : ExceptWithoutClose(r)

SessionsIdle == sess = [r \in Requests |-> [NoRequest EXCEPT !.pc = "off"]]

(***************************************************************************)
(* Ownership of the knowledge graph: the rows that save_conversation       *)
(* (server_http.py:306-402) and add_relationship (server_http.py:539-560)  *)
(* commit for several users, and build_user_graph (graph_service.py:29-67) *)
(* reading them in two queries while other requests commit.  The batch of  *)
(* one save_conversation is committed as a whole (db.commit(), line 380)   *)
(* or not at all, so a save is one step here.                              *)
(***************************************************************************)
\* The owner of entity row e: the user_id of its parent conversation.
OwnerOf(C, e) == (CHOOSE c \in C : c.id = e.conversation_id).user_id

\* The entity ids a caller may name: those the saves can create (two
\* entities per save at most), and one more that names no entity.
OwnEntityIds == 1..(2 * MaxOwnSaves + 1)

OwnershipInit ==
    /\ owConversations = {}
    /\ owEntities = {}
    /\ owRelationships = {}
    /\ owSeq = [conversations |-> 0, entities |-> 0, relationships |-> 0, adds |-> 0]
    /\ owBuilder = [pc |-> "idle", user_id |-> "u1", entity_ids |-> {},
                    G |-> [nodes |-> {}, edges |-> {}], seq |-> 0]

\* save_conversation by user u with content c: the conversation is
\* committed (lines 324-326), then the extracted entities and the
\* relationships between the entities saved in this call (lines 337-380);
\* `extracted` is FALSE when the extraction or a write of the batch raises
\* and the batch is rolled back.
OwnSaveConversation(u, c, extracted) ==
    LET conversation_id == owSeq.conversations + 1
        entities_data == IF extracted THEN ExtractionOf[c].entities ELSE <<>>
        relationships_data == IF extracted THEN ExtractionOf[c].relationships ELSE <<>>
        idOf(k) == owSeq.entities + k
        \* entity_id_map: a name maps to the id of the last entity of that name
        entity_id_map(name) ==
            idOf(MaxOf({ k \in 1..Len(entities_data) :
                            entities_data[k].entity_name = name }))
        saved == SelectSeq(relationships_data,
                     LAMBDA rel :
                         /\ \E k \in 1..Len(entities_data) :
                                entities_data[k].entity_name = rel.source_entity_name
                         /\ \E k \in 1..Len(entities_data) :
                                entities_data[k].entity_name = rel.target_entity_name)
    IN  /\ owSeq.conversations < MaxOwnSaves
        /\ owConversations' = owConversations \cup
               {[id |-> conversation_id, user_id |-> u]}
        /\ owEntities' = owEntities \cup
               { [id |-> idOf(k), conversation_id |-> conversation_id] :
                   k \in 1..Len(entities_data) }
        /\ owRelationships' = owRelationships \cup
               { [id |-> owSeq.relationships + k,
                  source_entity_id |-> entity_id_map(saved[k].source_entity_name),
                  target_entity_id |-> entity_id_map(saved[k].target_entity_name)] :
                   k \in 1..Len(saved) }
        /\ owSeq' = [owSeq EXCEPT !.conversations = conversation_id,
                                  !.entities = @ + Len(entities_data),
                                  !.relationships = @ + Len(saved)]
        /\ UNCHANGED <<owBuilder, owOthers>>

\* add_relationship(source_entity_id, target_entity_id), called by any
\* user: the row is added and committed (lines 542-552).  The caller's user
\* id is no argument of the tool and is not used; the foreign keys
\* (database.py:115-116) need both entities to exist.
OwnAddRelationship(source, target) ==
    /\ owSeq.adds < MaxOwnAdds
    /\ \E e \in owEntities : e.id = source
    /\ \E e \in owEntities : e.id = target
    /\ owRelationships' = owRelationships \cup
           {[id |-> owSeq.relationships + 1,
             source_entity_id |-> source, target_entity_id |-> target]}
    /\ owSeq' = [owSeq EXCEPT !.relationships = @ + 1, !.adds = @ + 1]
    /\ UNCHANGED <<owConversations, owEntities, owBuilder, owOthers>>

\* add_relationship naming an entity that does not exist: db.commit()
\* raises IntegrityError, nothing is written and the error is reported
\* (lines 568-572).
OwnAddRelationshipFails(source, target) ==
    /\ owSeq.adds < MaxOwnAdds
    /\ \/ ~\E e \in owEntities : e.id = source
       \/ ~\E e \in owEntities : e.id = target
    /\ owSeq' = [owSeq EXCEPT !.adds = @ + 1]
    /\ UNCHANGED <<owConversations, owEntities, owRelationships, owBuilder,
                   owOthers>>

\* build_user_graph, lines 30-34: the entities whose conversation belongs
\* to user_id.
UserEntities(C, E, user_id) ==
    { e \in E : \E c \in C : c.id = e.conversation_id /\ c.user_id = user_id }

\* UserRelationships as it would be with or_ in place of and_.
UserRelationships_EitherEndpoint(R, entity_ids) ==
    { r \in R : \/ r.source_entity_id \in entity_ids
                \/ r.target_entity_id \in entity_ids }

\* build_user_graph, lines 39-44: the relationships between those entities.
UserRelationships(R, entity_ids) ==
    { r \in R : /\ r.source_entity_id \in entity_ids
                /\ r.target_entity_id \in entity_ids }

\* build_user_graph(db, u), lines 30-36: the first query.
BuildReadEntities(u) ==
    /\ owBuilder.pc = "idle"
    /\ owBuilder' = [pc |-> "relationships", user_id |-> u,
                     entity_ids |-> { e.id : e \in UserEntities(owConversations, owEntities, u) },
                     G |-> [nodes |-> {}, edges |-> {}],
                     seq |-> owSeq.entities + owSeq.relationships]
    /\ UNCHANGED <<owConversations, owEntities, owRelationships, owSeq, owOthers>>

\* lines 39-67: the second query, then the graph is built and returned.
\* `seq` keeps how many rows were committed between the two queries.
BuildReadRelationships ==
    /\ owBuilder.pc = "relationships"
    /\ owBuilder' = [owBuilder EXCEPT
           !.pc = "done",
           !.G = [nodes |-> owBuilder.entity_ids,
                  edges |-> { <<r.source_entity_id, r.target_entity_id>> :
                                r \in UserRelationships(owRelationships,
                                                        owBuilder.entity_ids) }],
           !.seq = owSeq.entities + owSeq.relationships - @]
    /\ UNCHANGED <<owConversations, owEntities, owRelationships, owSeq, owOthers>>

\* The caller is done with the graph; the next build may start.
BuildReturns ==
    /\ owBuilder.pc = "done"
    /\ owBuilder' = [pc |-> "idle", user_id |-> "u1", entity_ids |-> {},
                     G |-> [nodes |-> {}, edges |-> {}], seq |-> 0]
    /\ UNCHANGED <<owConversations, owEntities, owRelationships, owSeq, owOthers>>

OwnershipNext ==
    \/ \E u \in Users, c \in Contents, extracted \in BOOLEAN :
           OwnSaveConversation(u, c, extracted)
    \/ \E source, target \in OwnEntityIds :
           OwnAddRelationship(source, target)
    \/ \E source, target \in OwnEntityIds :
           OwnAddRelationshipFails(source, target)
    \/ \E u \in Users : BuildReadEntities(u)
    \/ BuildReadRelationships
    \/ BuildReturns

OwnershipIdle ==
    /\ owConversations = {}
    /\ owEntities = {}
    /\ owRelationships = {}
    /\ owSeq = [conversations |-> 0, entities |-> 0, relationships |-> 0, adds |-> 0]
    /\ owBuilder = [pc |-> "off", user_id |-> "u1", entity_ids |-> {},
                    G |-> [nodes |-> {}, edges |-> {}], seq |-> 0]

(***************************************************************************)
(* The proxy's BackendConnection, server.py:26-85.  The handlers of the    *)
(* proxy (list_tools, call_tool, list_resources, read_resource) are        *)
(* asyncio tasks; each calls backend.connect() and a task gives up control *)
(* only at an await.  An SSE client and a ClientSession are numbered in    *)
(* the order they are created and are "entering", "open", "initialized",   *)
(* "failed" or "closed".                                                   *)
(***************************************************************************)
Tasks == {"t1", "t2"}
None == 0

IdleTask == [pc |-> "idle", sse |-> None, session |-> None, result |-> None]

ProxyInit ==
    /\ bcSession = None
    /\ bcSseClient = None
    /\ pxClients = <<>>
    /\ pxSessions = <<>>
    /\ pxCalls = 0
    /\ pxTask = [t \in Tasks |-> IdleTask]

\* lines 36-37: the session exists and is returned.
ConnectReturnsSession(t) ==
    /\ pxTask[t].pc = "idle"
    /\ pxCalls < MaxConnectCalls
    /\ bcSession # None
    /\ pxCalls' = pxCalls + 1
    /\ pxTask' = [pxTask EXCEPT ![t].pc = "returned", ![t].result = bcSession]
    /\ UNCHANGED <<bcSession, bcSseClient, pxClients, pxSessions, pxOthers>>

\* lines 36-49: no session yet; a new SSE client is stored in
\* self._sse_client and the task awaits its __aenter__.
ConnectOpensSse(t) ==
    /\ pxTask[t].pc = "idle"
    /\ pxCalls < MaxConnectCalls
    /\ bcSession = None
    /\ Len(pxClients) < MaxSseClients
    /\ pxCalls' = pxCalls + 1
    /\ pxClients' = Append(pxClients, "entering")
    /\ bcSseClient' = Len(pxClients) + 1
    /\ pxTask' = [pxTask EXCEPT ![t].pc = "sse_aenter",
                                ![t].sse = Len(pxClients) + 1]
    /\ UNCHANGED <<bcSession, pxSessions, pxOthers>>

\* The task after `except Exception`, lines 59-62: close() runs up to its
\* first await (lines 67-69, 71-72), or to its end when there is nothing to
\* close; then the exception is raised again (line 63).
CloseStart(task) ==
    IF bcSession # None
    THEN [task EXCEPT !.pc = "close_session", !.session = bcSession]
    ELSE IF bcSseClient # None
    THEN [task EXCEPT !.pc = "close_sse", !.sse = bcSseClient]
    ELSE [task EXCEPT !.pc = "raised"]

\* line 49 returns the streams; lines 52-53: a new ClientSession is stored
\* in self._session and the task awaits its __aenter__.
SseEntered(t) ==
    /\ pxTask[t].pc = "sse_aenter"
    /\ pxClients' = [pxClients EXCEPT ![pxTask[t].sse] = "open"]
    /\ pxSessions' = Append(pxSessions, "entering")
    /\ bcSession' = Len(pxSessions) + 1
    /\ pxTask' = [pxTask EXCEPT ![t].pc = "session_aenter",
                                ![t].session = Len(pxSessions) + 1]
    /\ UNCHANGED <<bcSseClient, pxCalls, pxOthers>>

\* line 49 raises.
SseEnterFails(t) ==
    /\ pxTask[t].pc = "sse_aenter"
    /\ pxClients' = [pxClients EXCEPT ![pxTask[t].sse] = "failed"]
    /\ pxTask' = [pxTask EXCEPT ![t] = CloseStart(pxTask[t])]
    /\ UNCHANGED <<bcSession, bcSseClient, pxSessions, pxCalls, pxOthers>>

\* line 53 returns; line 54 reads self._session again and awaits its
\* initialize(); self._session may be None by now (AttributeError).
SessionEntered(t) ==
    /\ pxTask[t].pc = "session_aenter"
    /\ pxSessions' = [pxSessions EXCEPT ![pxTask[t].session] = "open"]
    /\ pxTask' = [pxTask EXCEPT ![t] =
           IF bcSession = None THEN CloseStart(pxTask[t])
           ELSE [pxTask[t] EXCEPT !.pc = "initialize", !.session = bcSession]]
    /\ UNCHANGED <<bcSession, bcSseClient, pxClients, pxCalls, pxOthers>>

\* line 53 raises.
SessionEnterFails(t) ==
    /\ pxTask[t].pc = "session_aenter"
    /\ pxSessions' = [pxSessions EXCEPT ![pxTask[t].session] = "failed"]
    /\ pxTask' = [pxTask EXCEPT ![t] = CloseStart(pxTask[t])]
    /\ UNCHANGED <<bcSession, bcSseClient, pxClients, pxCalls, pxOthers>>

\* line 54 returns; line 57 returns self._session as it is now.
Initialized(t) ==
    /\ pxTask[t].pc = "initialize"
    /\ pxSessions[pxTask[t].session] \in {"open", "initialized"}
    /\ pxSessions' = [pxSessions EXCEPT ![pxTask[t].session] = "initialized"]
    /\ pxTask' = [pxTask EXCEPT ![t].pc = "returned", ![t].result = bcSession]
    /\ UNCHANGED <<bcSession, bcSseClient, pxClients, pxCalls, pxOthers>>

\* line 54 raises.
InitializeFails(t) ==
    /\ pxTask[t].pc = "initialize"
    /\ pxTask' = [pxTask EXCEPT ![t] = CloseStart(pxTask[t])]
    /\ UNCHANGED <<bcSession, bcSseClient, pxClients, pxSessions, pxCalls,
                   pxOthers>>

\* close(), lines 69-72: the session's __aexit__ returned; self._session is
\* set to None and the SSE client, if any, is closed next.
CloseSessionDone(t) ==
    /\ pxTask[t].pc = "close_session"
    /\ pxSessions' = [pxSessions EXCEPT ![pxTask[t].session] = "closed"]
    /\ bcSession' = None
    /\ pxTask' = [pxTask EXCEPT ![t] =
           IF bcSseClient # None
           THEN [pxTask[t] EXCEPT !.pc = "close_sse", !.sse = bcSseClient]
           ELSE [pxTask[t] EXCEPT !.pc = "raised"]]
    /\ UNCHANGED <<bcSseClient, pxClients, pxCalls, pxOthers>>

\* close(), lines 69, 74-76: the session's __aexit__ raises; the exception
\* is swallowed and close() returns with lines 70-73 skipped.
CloseSessionRaises(t) ==
    /\ pxTask[t].pc = "close_session"
    /\ pxTask' = [pxTask EXCEPT ![t].pc = "raised"]
    /\ UNCHANGED <<bcSession, bcSseClient, pxClients, pxSessions, pxCalls,
                   pxOthers>>

\* close(), lines 72-73: the SSE client's __aexit__ returned.
CloseSseDone(t) ==
    /\ pxTask[t].pc = "close_sse"
    /\ pxClients' = [pxClients EXCEPT ![pxTask[t].sse] = "closed"]
    /\ bcSseClient' = None
    /\ pxTask' = [pxTask EXCEPT ![t].pc = "raised"]
    /\ UNCHANGED <<bcSession, pxSessions, pxCalls, pxOthers>>

\* close(), lines 72, 74-76: the SSE client's __aexit__ raises.
CloseSseRaises(t) ==
    /\ pxTask[t].pc = "close_sse"
    /\ pxClients[pxTask[t].sse] = "open"
    /\ pxTask' = [pxTask EXCEPT ![t].pc = "raised"]
    /\ UNCHANGED <<bcSession, bcSseClient, pxClients, pxSessions, pxCalls,
                   pxOthers>>

\* The handler that called connect ends (lines 91-97 and the like); the
\* task serves the next request.
HandlerEnds(t) ==
    /\ pxTask[t].pc \in {"returned", "raised"}
    /\ pxTask' = [pxTask EXCEPT ![t] = IdleTask]
    /\ UNCHANGED <<bcSession, bcSseClient, pxClients, pxSessions, pxCalls,
                   pxOthers>>

ProxyNext ==
    \/ \E t \in Tasks : ConnectReturnsSession(t)
    \/ \E t \in Tasks : ConnectOpensSse(t)
    \/ \E t \in Tasks : SseEntered(t)
    \/ \E t \in Tasks : SseEnterFails(t)
    \/ \E t \in Tasks : SessionEntered(t)
    \/ \E t \in Tasks : SessionEnterFails(t)
    \/ \E t \in Tasks : Initialized(t)
    \/ \E t \in Tasks : InitializeFails(t)
    \/ \E t \in Tasks : CloseSessionDone(t)
    \/ \E t \in Tasks : CloseSessionRaises(t)
    \/ \E t \in Tasks : CloseSseDone(t)
    \/ \E t \in Tasks : CloseSseRaises(t)
    \/ \E t \in Tasks : HandlerEnds(t)

ProxyIdle ==
    /\ bcSession = None
    /\ bcSseClient = None
    /\ pxClients = <<>>
    /\ pxSessions = <<>>
    /\ pxCalls = 0
    /\ pxTask = [t \in Tasks |-> [IdleTask EXCEPT !.pc = "off"]]

(***************************************************************************)
(* Credentials: AuthService (memhub/auth_service.py), APIKeyService        *)
(* (memhub/api_key_service.py) and the authentication of the MCP endpoints *)
(* with call_tool's user_id injection (server_http.py).  The functions of  *)
(* the two services contain no await, so each runs as one step.  Time is   *)
(* counted in days; an API key is named by its row id.                     *)
(***************************************************************************)
\* Python's None where a user id is expected.
NoUser == "None"
\* settings.jwt_expiration_hours = 24 * 7.
jwt_expiration_days == 7
\* The argument expires_days of generate_api_key: None or a number of days.
ExpiresDays == {None, 1}
KeyIds == 1..MaxApiKeys
\* The JWTs a client can present: signed ones are the members of auTokens.
Tokens == [user_id : Users,
           exp : (1 + jwt_expiration_days)..(MaxAuthTime + jwt_expiration_days)]
\* arguments['user_id'] of a tool call: the key is absent, the value is
\* falsy, or it names a user.
ArgUserIds == {"absent", ""} \cup Users

NoCall == [op |-> "none", key |-> None, caller |-> NoUser, user_id |-> NoUser]

AuthInit ==
    /\ auUsers = [u \in Users |-> [is_active |-> TRUE]]
    /\ auKeys = <<>>
    /\ auTokens = {}
    /\ auNow = 1
    /\ auLast = NoCall
    /\ auRevoked = {}
    /\ auDeactivated = {}

\* AuthService.verify_token: jwt.decode accepts a token that carries the
\* server's signature and whose exp lies in the future; the payload's user_id
\* is returned without a look at the users table.
verify_token(tok) ==
    IF tok \in auTokens /\ tok.exp > auNow THEN tok.user_id ELSE NoUser

\* The query of verify_api_key: the row with this key's hash among the rows
\* with is_active == True.
api_key_record_AnyState(k) ==
    IF k \in 1..Len(auKeys) THEN k ELSE None

api_key_record(k) ==
    IF k \in 1..Len(auKeys) /\ auKeys[k].is_active THEN k ELSE None

\* APIKeyService.verify_api_key, its return value: the user of the key, or
\* None.
verify_api_key(k) ==
    LET rec == api_key_record(k) IN
    IF rec = None THEN NoUser
    ELSE IF auKeys[rec].expires_at # None /\ auKeys[rec].expires_at < auNow
    THEN NoUser
    ELSE IF ~auUsers[auKeys[rec].user_id].is_active THEN NoUser
    ELSE auKeys[rec].user_id

\* APIKeyService.verify_api_key, its write: last_used_at is set and
\* committed after the three checks have passed.
update_last_used(k) ==
    IF verify_api_key(k) # NoUser
    THEN [auKeys EXCEPT ![k].last_used_at = auNow]
    ELSE auKeys

\* call_tool's injection: the authenticated id is written into the arguments
\* when they have no user_id or a falsy one; the tools then use
\* args.user_id.
InjectUserId(authenticated_user_id, arg) ==
    IF arg = "absent" THEN authenticated_user_id
    ELSE IF arg = "" THEN authenticated_user_id
    ELSE arg

\* handle_login -> authenticate_user: a token for an active user with the
\* right password.
LoginUser(u, password_ok) ==
    /\ Cardinality(auTokens) < MaxLogins
    /\ IF auUsers[u].is_active /\ password_ok
       THEN /\ auTokens' = auTokens \cup
                   {[user_id |-> u, exp |-> auNow + jwt_expiration_days]}
            /\ auLast' = [op |-> "login", key |-> None, caller |-> u,
                          user_id |-> u]
       ELSE /\ auTokens' = auTokens
            /\ auLast' = [op |-> "login", key |-> None, caller |-> NoUser,
                          user_id |-> u]
    /\ UNCHANGED <<auUsers, auKeys, auNow, auRevoked, auDeactivated, auOthers>>

\* handle_generate_api_key -> generate_api_key: a new active row for the
\* user of the presented JWT.
GenerateApiKey(tok, expires_days) ==
    /\ Len(auKeys) < MaxApiKeys
    /\ LET payload == verify_token(tok) IN
       IF payload = NoUser
       THEN /\ auKeys' = auKeys
            /\ auLast' = [op |-> "generate_api_key", key |-> None,
                          caller |-> NoUser, user_id |-> NoUser]
       ELSE /\ auKeys' = Append(auKeys,
                   [user_id |-> payload, is_active |-> TRUE,
                    expires_at |-> IF expires_days # None
                                   THEN auNow + expires_days ELSE None,
                    last_used_at |-> None])
            /\ auLast' = [op |-> "generate_api_key",
                          key |-> Len(auKeys) + 1,
                          caller |-> payload, user_id |-> payload]
    /\ UNCHANGED <<auUsers, auTokens, auNow, auRevoked, auDeactivated,
                   auOthers>>

\* handle_revoke_api_key -> revoke_api_key: the row with this id among the
\* rows of the JWT's user, whatever its is_active, gets is_active = False.
RevokeApiKey(tok, k) ==
    LET payload == verify_token(tok)
        found == /\ payload # NoUser
                 /\ k \in 1..Len(auKeys)
                 /\ auKeys[k].user_id = payload
    IN  /\ auKeys' = IF found THEN [auKeys EXCEPT ![k].is_active = FALSE]
                     ELSE auKeys
        /\ auRevoked' = IF found THEN auRevoked \cup {k} ELSE auRevoked
        /\ auLast' = [op |-> "revoke_api_key", key |-> k, caller |-> payload,
                      user_id |-> payload]
        /\ UNCHANGED <<auUsers, auTokens, auNow, auDeactivated, auOthers>>

\* AuthService.deactivate_user.
DeactivateUser(u) ==
    /\ auUsers' = [auUsers EXCEPT ![u].is_active = FALSE]
    /\ auDeactivated' = auDeactivated \cup {u}
    /\ auLast' = [op |-> "deactivate_user", key |-> None, caller |-> NoUser,
                  user_id |-> u]
    /\ UNCHANGED <<auKeys, auTokens, auNow, auRevoked, auOthers>>

\* A request to an MCP endpoint with `Bearer mhub_...`:
\* extract_and_verify_token -> verify_api_key sets current_user_id, and
\* call_tool runs the tool under the injected user_id.
ToolCallWithApiKey(k, arg) ==
    LET payload == verify_api_key(k) IN
    /\ auKeys' = update_last_used(k)
    /\ auLast' = [op |-> "call_tool", key |-> k, caller |-> payload,
                  user_id |-> IF payload = NoUser THEN NoUser
                              ELSE InjectUserId(payload, arg)]
    /\ UNCHANGED <<auUsers, auTokens, auNow, auRevoked, auDeactivated,
                   auOthers>>

\* The same request with a JWT: extract_and_verify_token -> verify_token.
ToolCallWithToken(tok, arg) ==
    LET payload == verify_token(tok) IN
    /\ auLast' = [op |-> "call_tool", key |-> None, caller |-> payload,
                  user_id |-> IF payload = NoUser THEN NoUser
                              ELSE InjectUserId(payload, arg)]
    /\ UNCHANGED <<auUsers, auKeys, auTokens, auNow, auRevoked,
                   auDeactivated, auOthers>>

\* datetime.utcnow() advances.
DayPasses ==
    /\ auNow < MaxAuthTime
    /\ auNow' = auNow + 1
    /\ auLast' = NoCall
    /\ UNCHANGED <<auUsers, auKeys, auTokens, auRevoked, auDeactivated,
                   auOthers>>

AuthNext ==
    \/ \E u \in Users, password_ok \in BOOLEAN : LoginUser(u, password_ok)
    \/ \E tok \in Tokens, d \in ExpiresDays : GenerateApiKey(tok, d)
    \/ \E tok \in Tokens, k \in KeyIds : RevokeApiKey(tok, k)
    \/ \E u \in Users : DeactivateUser(u)
    \/ \E k \in KeyIds, arg \in ArgUserIds : ToolCallWithApiKey(k, arg)
    \/ \E tok \in Tokens, arg \in ArgUserIds : ToolCallWithToken(tok, arg)
    \/ DayPasses

AuthIdle ==
    /\ auUsers = [u \in Users |-> [is_active |-> TRUE]]
    /\ auKeys = <<>>
    /\ auTokens = {}
    /\ auNow = 0
    /\ auLast = NoCall
    /\ auRevoked = {}
    /\ auDeactivated = {}

(***************************************************************************)
(* The two save handlers on one request: the save_conversation tool        *)
(* (call_tool, server_http.py:306-402 with 568-572) and /api/save          *)
(* (handle_save_conversation_http, server_http.py:1036-1144), each run on  *)
(* an empty store for the same request and the same fault of the store or  *)
(* the extractor.  A run is the sequence of statements the handler sends   *)
(* to the store and what it returns.  Rows created in a run get the ids 1, *)
(* 2, ... of their table.                                                  *)
(***************************************************************************)
SaveSessionIds == {"", "s1"}
SaveRoles == {"user", "assistant"}
SavePlatforms == {"claude", "chatgpt"}
SaveMetadata == {"None", "{}"}
\* What fails while the request is served, if anything.
SaveFaults == {"none", "commit_conversation", "extract", "flush", "commit_batch"}
SaveRequests ==
    [user_id : Users, session_id : SaveSessionIds, role : SaveRoles,
     content : Contents, platform : SavePlatforms, metadata : SaveMetadata,
     fault : SaveFaults]
NoRun == [statements |-> <<>>, result |-> [kind |-> "none"], status |-> 0]

SaveEquivInit ==
    /\ svRequest \in SaveRequests
    /\ svRun = [h \in Handlers |-> NoRun]

\* ---- the tool -----------------------------------------------------------
\* lines 338-356: db.add(entity); db.flush() for each entity of
\* entities_data, in order.
tool_entity_flushes(req, entities_data) ==
    [k \in 1..Len(entities_data) |->
        [op |-> "flush",
         row |-> [id |-> k, user_id |-> req.user_id, conversation_id |-> 1,
                  entity_type |-> entities_data[k].entity_type,
                  entity_name |-> entities_data[k].entity_name]]]

\* lines 359-378: the relationships whose two names are keys of
\* entity_id_map.
tool_saved_relationships(relationships_data, names) ==
    SelectSeq(relationships_data,
              LAMBDA rel_data : /\ rel_data.source_entity_name \in names
                                /\ rel_data.target_entity_name \in names)

\* lines 306-402 and 568-572.
SaveTool(req) ==
    LET conversation ==
            [id |-> 1, user_id |-> req.user_id, session_id |-> req.session_id,
             role |-> req.role, content |-> req.content,
             platform |-> req.platform, extra_metadata |-> req.metadata]
        committed == <<[op |-> "commit", row |-> conversation]>>
        extraction == ExtractionOf[req.content]
        entities_data == extraction.entities
        names == { entities_data[k].entity_name : k \in 1..Len(entities_data) }
        \* entity_id_map[name]: the id of the last entity of that name
        entity_id_map(name) ==
            MaxOf({ k \in 1..Len(entities_data) :
                      entities_data[k].entity_name = name })
        saved_relationships ==
            tool_saved_relationships(extraction.relationships, names)
        adds == [k \in 1..Len(saved_relationships) |->
                    [op |-> "add",
                     row |-> [source_entity_id |->
                                  entity_id_map(saved_relationships[k].source_entity_name),
                              target_entity_id |->
                                  entity_id_map(saved_relationships[k].target_entity_name),
                              relationship_type |->
                                  saved_relationships[k].relationship_type,
                              weight |-> saved_relationships[k].weight]]]
        batch == tool_entity_flushes(req, entities_data) \o adds
        failed == [kind |-> "result", success |-> TRUE, conversation_id |-> 1,
                   message |-> "Conversation saved successfully (entity extraction failed)",
                   entities_extracted |-> 0, relationships_extracted |-> 0,
                   extraction_error |-> req.fault]
    IN  IF req.fault = "commit_conversation"
        THEN [statements |-> <<[op |-> "rollback", row |-> conversation]>>,
              result |-> [kind |-> "error", error |-> req.fault], status |-> 0]
        ELSE IF req.fault = "extract"
        THEN [statements |-> committed, result |-> failed, status |-> 0]
        ELSE IF req.fault = "flush" /\ entities_data # <<>>
        \* the Session is inactive: reading conversation.id in the handler
        \* of line 390 raises, and line 568 reports the error
        THEN [statements |-> committed \o
                             <<[op |-> "rollback",
                                row |-> tool_entity_flushes(req, entities_data)[1].row]>>,
              result |-> [kind |-> "error", error |-> req.fault], status |-> 0]
        ELSE IF req.fault = "commit_batch"
        THEN [statements |-> committed \o batch \o
                             <<[op |-> "rollback", row |-> conversation]>>,
              result |-> failed, status |-> 0]
        ELSE [statements |-> committed \o batch \o
                             <<[op |-> "commit", row |-> conversation]>>,
              result |-> [kind |-> "result", success |-> TRUE,
                          conversation_id |-> 1,
                          message |-> "Conversation saved successfully",
                          entities_extracted |-> Len(entities_data),
                          relationships_extracted |-> Len(saved_relationships)],
              status |-> 0]

\* ---- /api/save ----------------------------------------------------------
\* lines 1076-1094.
http_entity_flushes(req, entities_data) ==
    [k \in 1..Len(entities_data) |->
        [op |-> "flush",
         row |-> [id |-> k, user_id |-> req.user_id, conversation_id |-> 1,
                  entity_type |-> entities_data[k].entity_type,
                  entity_name |-> entities_data[k].entity_name]]]

\* http_saved_relationships as it would be if no relationship were saved.
http_saved_relationships_None(relationships_data, names) == <<>>

\* lines 1097-1116.
http_saved_relationships(relationships_data, names) ==
    SelectSeq(relationships_data,
              LAMBDA rel_data : /\ rel_data.source_entity_name \in names
                                /\ rel_data.target_entity_name \in names)

\* lines 1036-1144.
SaveHttp(req) ==
    LET conversation ==
            [id |-> 1, user_id |-> req.user_id, session_id |-> req.session_id,
             role |-> req.role, content |-> req.content,
             platform |-> req.platform, extra_metadata |-> req.metadata]
        committed == <<[op |-> "commit", row |-> conversation]>>
        extraction == ExtractionOf[req.content]
        entities_data == extraction.entities
        names == { entities_data[k].entity_name : k \in 1..Len(entities_data) }
        entity_id_map(name) ==
            MaxOf({ k \in 1..Len(entities_data) :
                      entities_data[k].entity_name = name })
        saved_relationships ==
            http_saved_relationships(extraction.relationships, names)
        adds == [k \in 1..Len(saved_relationships) |->
                    [op |-> "add",
                     row |-> [source_entity_id |->
                                  entity_id_map(saved_relationships[k].source_entity_name),
                              target_entity_id |->
                                  entity_id_map(saved_relationships[k].target_entity_name),
                              relationship_type |->
                                  saved_relationships[k].relationship_type,
                              weight |-> saved_relationships[k].weight]]]
        batch == http_entity_flushes(req, entities_data) \o adds
        failed == [kind |-> "result", success |-> TRUE, conversation_id |-> 1,
                   message |-> "Conversation saved successfully (entity extraction failed)",
                   entities_extracted |-> 0, relationships_extracted |-> 0,
                   extraction_error |-> req.fault]
    IN  IF req.session_id = "" \/ req.content = <<>>
        THEN [statements |-> <<>>,
              result |-> [kind |-> "error",
                          error |-> "session_id and content are required"],
              status |-> 400]
        ELSE IF req.fault = "commit_conversation"
        THEN [statements |-> <<[op |-> "rollback", row |-> conversation]>>,
              result |-> [kind |-> "error", error |-> req.fault],
              status |-> 500]
        ELSE IF req.fault = "extract"
        THEN [statements |-> committed, result |-> failed, status |-> 200]
        ELSE IF req.fault = "flush" /\ entities_data # <<>>
        THEN [statements |-> committed \o
                             <<[op |-> "rollback",
                                row |-> http_entity_flushes(req, entities_data)[1].row]>>,
              result |-> [kind |-> "error", error |-> req.fault],
              status |-> 500]
        ELSE IF req.fault = "commit_batch"
        THEN [statements |-> committed \o batch \o
                             <<[op |-> "rollback", row |-> conversation]>>,
              result |-> failed, status |-> 200]
        ELSE [statements |-> committed \o batch \o
                             <<[op |-> "commit", row |-> conversation]>>,
              result |-> [kind |-> "result", success |-> TRUE,
                          conversation_id |-> 1,
                          message |-> "Conversation saved successfully",
                          entities_extracted |-> Len(entities_data),
                          relationships_extracted |-> Len(saved_relationships)],
              status |-> 200]

\* The request is sent to the tool.
CallSaveTool ==
    /\ svRun["tool"] = NoRun
    /\ svRun' = [svRun EXCEPT !["tool"] = SaveTool(svRequest)]
    /\ UNCHANGED <<svRequest, svOthers>>

\* The request is sent to /api/save.
CallSaveHttp ==
    /\ svRun["http"] = NoRun
    /\ svRun' = [svRun EXCEPT !["http"] = SaveHttp(svRequest)]
    /\ UNCHANGED <<svRequest, svOthers>>

SaveEquivNext ==
    \/ CallSaveTool
    \/ CallSaveHttp

SaveEquivIdle ==
    /\ svRequest = [user_id |-> "u1", session_id |-> "", role |-> "user",
                    content |-> <<>>, platform |-> "claude",
                    metadata |-> "None", fault |-> "none"]
    /\ svRun = [h \in Handlers |-> [NoRun EXCEPT !.status = 0 - 1]]

(***************************************************************************)
(* Specifications.                                                         *)
(***************************************************************************)
InitTraverse ==
    /\ TraverseInit
    /\ SearchIdle /\ ImportanceIdle /\ ClustersIdle
    /\ ExtractIdle /\ IngestIdle /\ RecentIdle
    /\ SessionsIdle /\ OwnershipIdle /\ ProxyIdle
    /\ AuthIdle /\ SaveEquivIdle
SpecTraverse == InitTraverse /\ [][TraverseNext]_vars

InitSearch ==
    /\ SearchInit
    /\ TraverseIdle /\ ImportanceIdle /\ ClustersIdle
    /\ ExtractIdle /\ IngestIdle /\ RecentIdle
    /\ SessionsIdle /\ OwnershipIdle /\ ProxyIdle
    /\ AuthIdle /\ SaveEquivIdle
SpecSearch == InitSearch /\ [][SearchNext]_vars

InitImportance ==
    /\ ImportanceInit
    /\ TraverseIdle /\ SearchIdle /\ ClustersIdle
    /\ ExtractIdle /\ IngestIdle /\ RecentIdle
    /\ SessionsIdle /\ OwnershipIdle /\ ProxyIdle
    /\ AuthIdle /\ SaveEquivIdle
SpecImportance == InitImportance /\ [][ImportanceNext]_vars

InitClusters ==
    /\ ClustersInit
    /\ TraverseIdle /\ SearchIdle /\ ImportanceIdle
    /\ ExtractIdle /\ IngestIdle /\ RecentIdle
    /\ SessionsIdle /\ OwnershipIdle /\ ProxyIdle
    /\ AuthIdle /\ SaveEquivIdle
SpecClusters == InitClusters /\ [][ClustersNext]_vars

InitExtractFallback ==
    /\ ExtractInit /\ xSpacy = FALSE
    /\ TraverseIdle /\ SearchIdle /\ ImportanceIdle
    /\ ClustersIdle /\ IngestIdle /\ RecentIdle
    /\ SessionsIdle /\ OwnershipIdle /\ ProxyIdle
    /\ AuthIdle /\ SaveEquivIdle
SpecExtractFallback == InitExtractFallback /\ [][ExtractWithFallback]_vars

InitExtractSpacy ==
    /\ ExtractInit /\ xSpacy = TRUE
    /\ TraverseIdle /\ SearchIdle /\ ImportanceIdle
    /\ ClustersIdle /\ IngestIdle /\ RecentIdle
    /\ SessionsIdle /\ OwnershipIdle /\ ProxyIdle
    /\ AuthIdle /\ SaveEquivIdle
SpecExtractSpacy == InitExtractSpacy /\ [][ExtractWithSpacy]_vars

InitIngest ==
    /\ IngestInit
    /\ TraverseIdle /\ SearchIdle /\ ImportanceIdle
    /\ ClustersIdle /\ ExtractIdle /\ RecentIdle
    /\ SessionsIdle /\ OwnershipIdle /\ ProxyIdle
    /\ AuthIdle /\ SaveEquivIdle
SpecIngest == InitIngest /\ [][IngestNext]_vars

InitRecent ==
    /\ RecentInit
    /\ TraverseIdle /\ SearchIdle /\ ImportanceIdle
    /\ ClustersIdle /\ ExtractIdle /\ IngestIdle
    /\ SessionsIdle /\ OwnershipIdle /\ ProxyIdle
    /\ AuthIdle /\ SaveEquivIdle
SpecRecent == InitRecent /\ [][RecentNext]_vars

InitSessions ==
    /\ SessionsInit
    /\ TraverseIdle /\ SearchIdle /\ ImportanceIdle
    /\ ClustersIdle /\ ExtractIdle /\ IngestIdle
    /\ RecentIdle /\ OwnershipIdle /\ ProxyIdle
    /\ AuthIdle /\ SaveEquivIdle
SpecSessions == InitSessions /\ [][SessionsNext]_vars

InitOwnership ==
    /\ OwnershipInit
    /\ TraverseIdle /\ SearchIdle /\ ImportanceIdle
    /\ ClustersIdle /\ ExtractIdle /\ IngestIdle
    /\ RecentIdle /\ SessionsIdle /\ ProxyIdle
    /\ AuthIdle /\ SaveEquivIdle
SpecOwnership == InitOwnership /\ [][OwnershipNext]_vars

InitProxy ==
    /\ ProxyInit
    /\ TraverseIdle /\ SearchIdle /\ ImportanceIdle
    /\ ClustersIdle /\ ExtractIdle /\ IngestIdle
    /\ RecentIdle /\ SessionsIdle /\ OwnershipIdle
    /\ AuthIdle /\ SaveEquivIdle
SpecProxy == InitProxy /\ [][ProxyNext]_vars

InitAuth ==
    /\ AuthInit
    /\ TraverseIdle /\ SearchIdle /\ ImportanceIdle
    /\ ClustersIdle /\ ExtractIdle /\ IngestIdle
    /\ RecentIdle /\ SessionsIdle /\ OwnershipIdle
    /\ ProxyIdle /\ SaveEquivIdle
SpecAuth == InitAuth /\ [][AuthNext]_vars

InitSaveEquiv ==
    /\ SaveEquivInit
    /\ TraverseIdle /\ SearchIdle /\ ImportanceIdle
    /\ ClustersIdle /\ ExtractIdle /\ IngestIdle
    /\ RecentIdle /\ SessionsIdle /\ OwnershipIdle
    /\ ProxyIdle /\ AuthIdle
SpecSaveEquiv == InitSaveEquiv /\ [][SaveEquivNext]_vars

(***************************************************************************)
(* Claims about get_related_entities.                                      *)
(***************************************************************************)
EntityIds(s) == [i \in 1..Len(s) |-> s[i].entity_id]

\* The chain A->B->C of Scenario B, with A = 1, B = 2, C = 3 and weight 1.
ChainABC == { [src |-> 1, dst |-> 2, weight |-> 1], [src |-> 2, dst |-> 3, weight |-> 1] }

\* C1: get_related_entities never returns an entry whose depth is greater than
\* max_depth (max_depth >= 0); on the chain A->B->C with max_depth = 1 the
\* result is exactly [B] at depth 1.
C1_DepthWithinMaxDepth ==
    trPc = "done" =>
        /\ \A i \in 1..Len(trResult) : trResult[i].depth <= max_depth
        /\ (G.edges = ChainABC /\ seed = 1 /\ max_depth = 1 /\ limit >= 2)
               => EntityIds(trResult) = <<2>>

\* C2: the list returned by one get_related_entities call never contains the
\* same entity_id twice.
C2_NoEntityTwice ==
    trPc = "done" => NoDuplicates(EntityIds(trResult))

(***************************************************************************)
(* Claims about search_conversations.                                      *)
(***************************************************************************)
\* C3: for limit >= 0, search_conversations returns no row whose similarity is
\* below the threshold and at most limit rows; when no stored row reaches the
\* threshold the result is empty even though candidates exist.
C3_ThresholdAndLimit ==
    sPc = "done" =>
        /\ \A i \in 1..Len(sResult) :
            /\ sResult[i].similarity # NaN
            /\ sResult[i].similarity >= sArgs.threshold
            /\ corpus[sResult[i].id].similarity = sResult[i].similarity
        /\ Len(sResult) <= sArgs.limit
        /\ (\A id \in DOMAIN corpus : ~SimGe(corpus[id].similarity, sArgs.threshold))
               => sResult = <<>>

\* Scenario E: candidates were fetched, none reaches the threshold, and the
\* call has returned.
C3_Witness ==
    /\ sPc = "done"
    /\ sFetched # <<>>
    /\ sArgs.limit >= 1
    /\ \A id \in DOMAIN corpus : ~SimGe(corpus[id].similarity, sArgs.threshold)
    /\ \E id \in DOMAIN corpus : corpus[id].similarity # NaN

(***************************************************************************)
(* Claims about get_entity_importance.                                     *)
(***************************************************************************)
\* C4: get_entity_importance returns an empty list on an empty graph, and on
\* a non-empty graph whose nodes are all isolated it returns normally, with
\* every node present and a finite, non-negative importance.
C4_IsolatedNodesScored ==
    /\ (iG.nodes = {} /\ iPc # "call") => (iPc = "done" /\ iResult = <<>>)
    /\ (iG.nodes # {} /\ iG.edges = {} /\ iPc # "call") =>
          /\ iPc = "done"
          /\ iLimit >= Cardinality(iG.nodes) =>
                { iResult[i].entity_id : i \in 1..Len(iResult) } = iG.nodes
          /\ \A i \in 1..Len(iResult) :
                iResult[i].importance.den > 0 /\ iResult[i].importance.num >= 0

(***************************************************************************)
(* Claims about get_topic_clusters.                                        *)
(***************************************************************************)
\* C5: every cluster returned by get_topic_clusters has at least
\* min_cluster_size entities, and any two returned clusters share no entity.
C5_ClustersLargeEnoughAndDisjoint ==
    cPc = "done" =>
        /\ \A i \in 1..Len(cResult) :
            /\ cResult[i].size >= cMinSize
            /\ Len(cResult[i].entities) >= cMinSize
            /\ Cardinality(Range(cResult[i].entities)) >= cMinSize
        /\ \A i, j \in 1..Len(cResult) :
            i # j => Range(cResult[i].entities) \cap Range(cResult[j].entities) = {}

\* Two clusters are returned, one of them with several entities.
C5_Witness ==
    /\ cPc = "done"
    /\ Len(cResult) >= 2
    /\ cMinSize >= 1
    /\ \E i \in 1..Len(cResult) : cResult[i].size >= 2

(***************************************************************************)
(* Claims about extract_entities.                                          *)
(***************************************************************************)
EntityNames(s) == [i \in 1..Len(s) |-> s[i].entity_name]

\* C8: within one extract_entities call, under either strategy, no two
\* emitted entities have names that are equal ignoring case, also when the
\* same named span occurs more than once in the text.
C8_NoCaseInsensitiveDuplicates ==
    xPc = "done" =>
        \A i, j \in 1..Len(xEntities) :
            i # j => Lower(xEntities[i].entity_name)
                        # Lower(xEntities[j].entity_name)

\* C9: with the fallback extractor, when relationships are requested and
\* n >= 2 entities were found, the relationships are exactly the pairs
\* (entity i, entity j) with j one or two places after i, each once, of type
\* mentioned_with and weight 1.0: 2n-3 of them, none from an entity to
\* itself; otherwise there are none.  Python and Docker alone yield one
\* relationship between them.
C9_FallbackWindow ==
    (xPc = "done" /\ ~xSpacy) =>
        LET n == Len(xEntities)
            Window == { p \in (1..n) \X (1..n) :
                          p[1] + 1 <= p[2] /\ p[2] <= Min(p[1] + 2, n) }
            Expected(p) ==
                Relationship(xEntities[p[1]].entity_name,
                             xEntities[p[2]].entity_name,
                             "mentioned_with", 10)
        IN  IF xWantRel /\ n >= 2
            THEN /\ Len(xRelationships) = 2 * n - 3
                 /\ \A p \in Window :
                        Cardinality({ k \in 1..Len(xRelationships) :
                                        xRelationships[k] = Expected(p) }) = 1
                 /\ \A k \in 1..Len(xRelationships) :
                        /\ \E p \in Window : xRelationships[k] = Expected(p)
                        /\ xRelationships[k].source_entity_name
                              # xRelationships[k].target_entity_name
                 /\ EntityNames(xEntities) = <<"Python", "Docker">> =>
                        xRelationships = << Relationship("Python", "Docker",
                                                "mentioned_with", 10) >>
            ELSE xRelationships = <<>>

C9_Witness ==
    /\ xPc = "done" /\ ~xSpacy /\ xWantRel
    /\ Len(xEntities) >= 4
    /\ Len(xRelationships) = 5

(***************************************************************************)
(* Claims about save_conversation.                                         *)
(***************************************************************************)
\* C6: if extraction, an entity or relationship write or the final commit
\* fails after the Conversation row was committed, the row stays persisted
\* and the call returns success with the conversation id, zero entities and
\* relationships and an extraction_error note, not an error result.
C6_SoftFailure ==
    \A p \in Processes :
        (proc[p].pc = "finally"
            /\ proc[p].failed \in {"extraction", "flush", "commit"}) =>
            /\ \E c \in dbConversations : c.id = proc[p].conversation_id
            /\ proc[p].result =
                   [kind |-> "soft",
                    conversation_id |-> proc[p].conversation_id,
                    entities_extracted |-> 0,
                    relationships_extracted |-> 0]

\* All the rows that the ingestion of conversation c derives are in E and R.
BatchComplete(E, R, c) ==
    /\ { e.entity_name : e \in EntitiesOf(E, c.id) }
           = Range(EntityNames(ExtractionOf[c.content].entities))
    /\ Cardinality(EntitiesOf(E, c.id))
           = Len(ExtractionOf[c.content].entities)
    /\ Cardinality(RelationshipsOf(E, R, c.id))
           = Len(ExtractionOf[c.content].relationships)

AllOrNothing(E, R) ==
    \A c \in dbConversations :
        \/ EntitiesOf(E, c.id) = {} /\ RelationshipsOf(E, R, c.id) = {}
        \/ BatchComplete(E, R, c)

\* C7: the entities and relationships of one ingestion become visible
\* together: the committed rows, and the rows a concurrent reader gets, hold
\* none or all of them; after a write phase that failed part-way and the
\* close of the session, none of its entities is persisted.
C7_AtomicBatch ==
    /\ AllOrNothing(dbEntities, dbRelationships)
    /\ rd.pc = "done" => AllOrNothing(rd.entities, rd.relationships)
    /\ \A p \in Processes :
           (proc[p].pc = "idle"
               /\ proc[p].failed \in {"extraction", "flush", "commit"}) =>
               EntitiesOf(dbEntities, proc[p].conversation_id) = {}

C7_Witness ==
    \E p \in Processes :
        /\ proc[p].pc = "idle" /\ proc[p].failed = "flush" /\ proc[p].i = 2
        /\ EntitiesOf(dbEntities, proc[p].conversation_id) = {}
        /\ \E q \in Processes \ {p} : proc[q].flushed # {}

(***************************************************************************)
(* Claims about get_recent_context.                                        *)
(***************************************************************************)
\* The matching rows, in the order they were created.
MatchingInCreationOrder ==
    LET S == RecentFilter(rcArgs)
    IN  CHOOSE q \in [1..Cardinality(S) -> S] :
            \A i, j \in DOMAIN q : i < j => q[i] < q[j]

LastOf(q, n) == SubSeq(q, Len(q) - Min(n, Len(q)) + 1, Len(q))

\* created_at strictly increases along the order of creation.
TimestampsFollowCreation ==
    \A i, j \in RecentFilter(rcArgs) :
        i < j => rcTable[i].created_at < rcTable[j].created_at

\* C10 as stated: the call returns the limit most recently created
\* conversations of the owner (of the session when given), in the order they
\* were created.
C10_CreationOrder ==
    rcPc = "done" => rcResult = LastOf(MatchingInCreationOrder, rcArgs.limit)

\* C10, amended: the call returns min(limit, matching) conversations of the
\* owner (of the session when given), none twice, none with a created_at
\* below that of a matching conversation left out, ordered by non-decreasing
\* created_at; when created_at strictly increases in the order of creation
\* they are the limit most recently created ones in the order of creation.
C10_ChronologicalOrder ==
    rcPc = "done" =>
        LET S == RecentFilter(rcArgs)
        IN  /\ Len(rcResult) = Min(rcArgs.limit, Cardinality(S))
            /\ Range(rcResult) \subseteq S
            /\ NoDuplicates(rcResult)
            /\ \A i, j \in 1..Len(rcResult) :
                   i < j => rcTable[rcResult[i]].created_at
                               <= rcTable[rcResult[j]].created_at
            /\ \A m \in S \ Range(rcResult) : \A i \in 1..Len(rcResult) :
                   rcTable[m].created_at <= rcTable[rcResult[i]].created_at
            /\ TimestampsFollowCreation =>
                   rcResult = LastOf(MatchingInCreationOrder, rcArgs.limit)

C10_Witness ==
    /\ rcPc = "done"
    /\ TimestampsFollowCreation
    /\ Len(rcResult) >= 2
    /\ rcArgs.limit = Cardinality(RecentFilter(rcArgs))
    /\ Len(rcTable) > Len(rcResult)

(***************************************************************************)
(* Claims about the store sessions.                                        *)
(***************************************************************************)
\* C11: every request handler that opens a store session has closed it
\* when it exits, whether it left by a return, by the end of its block or
\* by an exception raised while the session was in use.
C11_SessionClosedOnExit ==
    \A r \in Requests : sess[r].pc = "exited" => sess[r].db = "closed"

(***************************************************************************)
(* Further claims about get_related_entities.                              *)
(***************************************************************************)
\* C12: a query with a negative limit is rejected before any store access
\* and reported as an error: get_related_entities never looks its seed up,
\* never builds the graph and never returns a list when limit < 0.
C12_NegativeLimitRejected ==
    limit < 0 => trPc \notin {"dfs", "done"}

C17_SortedAndTruncated ==
    trPc = "done" =>
        /\ \A i, j \in 1..Len(trResult) :
               i < j =>
                   /\ trResult[i].weight >= trResult[j].weight
                   /\ trResult[i].weight = trResult[j].weight
                          => trResult[i].depth <= trResult[j].depth
        /\ limit >= 0 => Len(trResult) <= limit

\* The call has returned two entries after discovering three, in an order
\* the sort had to change.
C17_Witness ==
    /\ trPc = "done"
    /\ limit = 2
    /\ Len(related) = 3
    /\ Len(trResult) = 2
    /\ SubSeq(related, 1, 2) # trResult

\* C18: with limit >= 1 the list of discovered results never holds more
\* than limit entries before the final sort and truncation.
C18_DiscoveryStopsAtLimit ==
    limit >= 1 => Len(related) <= limit

\* The edge src -> dst of g.
HasEdge(g, a, b) == \E e \in g.edges : e.src = a /\ e.dst = b

\* C19: the path of every returned entry starts at the seed, ends at the
\* entry's entity, follows only directed edges source -> target of the
\* graph, and has depth + 1 nodes; the weight is that of its last edge.
C19_PathsFollowEdges ==
    trPc = "done" =>
        \A i \in 1..Len(trResult) :
            LET e == trResult[i]
                n == Len(e.path)
            IN  /\ n = e.depth + 1
                /\ n >= 2
                /\ e.path[1] = seed
                /\ e.path[n] = e.entity_id
                /\ \A k \in 1..(n - 1) : HasEdge(G, e.path[k], e.path[k + 1])
                /\ e.weight = EdgeData(G, e.path[n - 1], e.path[n]).weight

\* An entity two edges away from the seed is returned, in a graph that also
\* has an edge into the seed which no path may use.
C19_Witness ==
    /\ trPc = "done"
    /\ \E i \in 1..Len(trResult) : trResult[i].depth = 2
    /\ \E e \in G.edges : e.dst = seed /\ e.src # seed

(***************************************************************************)
(* Further claims about get_topic_clusters.                                *)
(***************************************************************************)
\* S is a connected component of the undirected view of g: no edge leaves
\* S, and every split of S in two parts has an edge across it.
Crosses(g, A, B) ==
    \E e \in g.edges : (e.src \in A /\ e.dst \in B) \/ (e.src \in B /\ e.dst \in A)

IsComponent(g, S) ==
    /\ S # {}
    /\ S \subseteq g.nodes
    /\ ~Crosses(g, S, g.nodes \ S)
    /\ \A T \in SUBSET S : (T # {} /\ T # S) => Crosses(g, T, S \ T)

\* C14: when the communities are the connected components, the clusters
\* returned are exactly the connected components of the undirected view
\* that have at least min_cluster_size nodes, each once, in order of
\* non-increasing size; with one component of two nodes, one of four and
\* min_cluster_size = 3 the result is one cluster of size 4.
C14_ComponentClusters ==
    (cPc = "done" /\ ~cLouvain) =>
        /\ { Range(cResult[i].entities) : i \in 1..Len(cResult) }
               = { S \in SUBSET cG.nodes :
                     IsComponent(cG, S) /\ Cardinality(S) >= cMinSize }
        /\ \A i \in 1..Len(cResult) :
               /\ NoDuplicates(cResult[i].entities)
               /\ cResult[i].size = Len(cResult[i].entities)
        /\ \A i, j \in 1..Len(cResult) :
               /\ i # j => Range(cResult[i].entities) # Range(cResult[j].entities)
               /\ i < j => cResult[i].size >= cResult[j].size
        /\ (cG \in ScenarioGraphs /\ cMinSize = 3) =>
               (Len(cResult) = 1 /\ cResult[1].size = 4)

\* The call has returned for a graph with one component of two nodes and
\* one of four, and min_cluster_size = 3.
C14_Witness ==
    /\ cPc = "done"
    /\ ~cLouvain
    /\ cG \in ScenarioGraphs
    /\ cMinSize = 3
    /\ Len(cResult) = 1

\* The entity types in lexicographic order.
TypesInOrder == <<"concept", "technology">>

SmallestType(S) ==
    TypesInOrder[MinOf({ k \in 1..Len(TypesInOrder) : TypesInOrder[k] \in S })]

\* C20: every cluster is labelled with its most frequent entity type, the
\* lexicographically smallest one when several types are tied.
C20_LabelIsSmallestMostFrequent ==
    cPc = "done" =>
        \A i \in 1..Len(cResult) :
            cResult[i].cluster_label
                = SmallestType(MostCommonTypes(cG, cResult[i].entities))

(***************************************************************************)
(* Claims about the ownership of the graph.                                *)
(***************************************************************************)
\* C15: after any sequence of save_conversation and add_relationship by any
\* users, every persisted relationship has a source and a target entity
\* that both exist and belong to the same owner.
C15_EndpointsOfOneOwner ==
    \A r \in owRelationships :
        \E s, t \in owEntities :
            /\ s.id = r.source_entity_id
            /\ t.id = r.target_entity_id
            /\ OwnerOf(owConversations, s) = OwnerOf(owConversations, t)

\* C16: the graph build_user_graph(owner) returns has as nodes only
\* entities whose parent conversation belongs to owner, and as edges only
\* persisted relationships with both endpoints among its nodes, whatever
\* other requests commit between its two queries.
C16_GraphScopedToOwner ==
    owBuilder.pc = "done" =>
        /\ \A n \in owBuilder.G.nodes :
               \E e \in owEntities :
                   /\ e.id = n
                   /\ OwnerOf(owConversations, e) = owBuilder.user_id
        /\ \A edge \in owBuilder.G.edges :
               /\ edge[1] \in owBuilder.G.nodes
               /\ edge[2] \in owBuilder.G.nodes
               /\ \E r \in owRelationships :
                      /\ r.source_entity_id = edge[1]
                      /\ r.target_entity_id = edge[2]

\* A graph with an edge has been built while another request committed
\* entities of the same owner, and a relationship between them, between the
\* two queries.
C16_Witness ==
    /\ owBuilder.pc = "done"
    /\ owBuilder.G.edges # {}
    /\ owBuilder.seq > 0
    /\ \E r \in owRelationships :
           /\ r.source_entity_id \notin owBuilder.G.nodes
           /\ \E e \in owEntities :
                  /\ e.id = r.source_entity_id
                  /\ OwnerOf(owConversations, e) = owBuilder.user_id

(***************************************************************************)
(* Further claims about extract_entities.                                  *)
(***************************************************************************)
\* The co_occurs_with relationships of the returned list, in order.
CoOccurs ==
    SelectSeq(xRelationships, LAMBDA r : r.relationship_type = "co_occurs_with")

\* C21: with the linguistic extractor the co_occurs_with relationships never
\* join an entity to itself, and for the entities of one sentence hold at
\* most one relationship per unordered pair (never both directions, never
\* twice), also when an entity is mentioned more than once in the sentence.
C21_OnePerUnorderedPair ==
    (xPc = "done" /\ xSpacy) =>
        /\ \A i \in 1..Len(CoOccurs) :
               CoOccurs[i].source_entity_name # CoOccurs[i].target_entity_name
        /\ (\A k \in 1..Len(xDoc.ents) : xDoc.ents[k].sent = 1) =>
               \A i, j \in 1..Len(CoOccurs) :
                   i # j =>
                       {CoOccurs[i].source_entity_name, CoOccurs[i].target_entity_name}
                         # {CoOccurs[j].source_entity_name, CoOccurs[j].target_entity_name}

(***************************************************************************)
(* Claims about the proxy's BackendConnection.                             *)
(***************************************************************************)
Unclosed(states) == { k \in 1..Len(states) : states[k] \in {"entering", "open", "initialized"} }

\* C22: connect is get-or-create: under any interleaving of concurrent
\* connect calls at most one SSE client and one client session are open,
\* each of them is the one the connection refers to (none is left
\* unreferenced and unclosed), and a connect that returns gives back the
\* established session.
C22_GetOrCreate ==
    /\ Unclosed(pxClients) \subseteq {bcSseClient}
    /\ Unclosed(pxSessions) \subseteq {bcSession}
    /\ \A t \in Tasks :
           pxTask[t].pc = "returned" =>
               /\ pxTask[t].result # None
               /\ pxSessions[pxTask[t].result] = "initialized"

\* C29: when a connect attempt has failed and raised, the connection state
\* is fully reset: no session and no SSE client is retained, also when
\* closing the partially opened resources itself raised.
C29_ResetAfterFailure ==
    \A t \in Tasks :
        pxTask[t].pc = "raised" => (bcSession = None /\ bcSseClient = None)


(***************************************************************************)
(* C24: once revoke_api_key has succeeded for a key, verify_api_key        *)
(* returns None for it in every later call; it also returns None for a key *)
(* past its expires_at and for a key of an inactive user; and in each of   *)
(* these cases the key's last_used_at stays as it was.                     *)
(***************************************************************************)
KeyRefusable(k) ==
    \/ k \in auRevoked
    \/ auKeys[k].expires_at # None /\ auKeys[k].expires_at < auNow
    \/ ~auUsers[auKeys[k].user_id].is_active

C24_RevokedKeyStaysRefused ==
    [][\A k \in 1..Len(auKeys) :
          (auLast'.op = "call_tool" /\ auLast'.key = k /\ KeyRefusable(k))
              => /\ auLast'.caller = NoUser
                 /\ auKeys'[k].last_used_at = auKeys[k].last_used_at]_vars

\* A key that had verified before is presented after its revocation.
C24_Witness ==
    /\ auLast.op = "call_tool"
    /\ auLast.key \in auRevoked
    /\ auLast.caller = NoUser
    /\ auKeys[auLast.key].last_used_at # None

(***************************************************************************)
(* C25: a tool call runs under the user id of the authenticated caller,    *)
(* whatever user_id its arguments carry.                                   *)
(***************************************************************************)
C25_ToolRunsAsCaller ==
    (auLast.op = "call_tool" /\ auLast.caller # NoUser)
        => auLast.user_id = auLast.caller

(***************************************************************************)
(* C30: after deactivate_user has succeeded for a user, no login and no    *)
(* request to an MCP endpoint is authenticated as that user, whether it    *)
(* presents a password, an API key or a JWT issued before.                 *)
(***************************************************************************)
C30_DeactivatedNeverAuthenticated ==
    auLast.op \in {"login", "call_tool"} => auLast.caller \notin auDeactivated

(***************************************************************************)
(* C28: the seed entity is never an entry of the result of                 *)
(* get_related_entities, nor of the list the traversal collects, also when *)
(* the graph has a self-loop on the seed or a cycle leading back to it.    *)
(***************************************************************************)
C28_SeedNotInResult ==
    /\ \A i \in 1..Len(related) : related[i].entity_id # seed
    /\ \A i \in 1..Len(trResult) : trResult[i].entity_id # seed

\* A finished call on a graph with a self-loop on the seed and an edge back
\* to the seed from an entity the traversal has entered.
C28_Witness ==
    /\ trPc = "done"
    /\ trResult # <<>>
    /\ \E e \in G.edges : e.src = seed /\ e.dst = seed
    /\ \E i \in 1..Len(trResult) :
          /\ trResult[i].entity_id \in visited
          /\ \E e \in G.edges : e.src = trResult[i].entity_id /\ e.dst = seed

(***************************************************************************)
(* C27: search_conversations is complete up to limit.  With k the number   *)
(* of the owner's filtered rows whose similarity reaches the threshold,    *)
(* the result is min(limit, k) of those rows, in non-increasing similarity *)
(* and none of them ranked below a row left out; a result of fewer than    *)
(* limit rows misses no row that reaches the threshold.                    *)
(***************************************************************************)
Matching ==
    { id \in SearchFilter(sArgs) : SimGe(corpus[id].similarity, sArgs.threshold) }

ResultIds == { sResult[i].id : i \in 1..Len(sResult) }

C27_CompleteUpToLimit ==
    sPc = "done" =>
        /\ Len(sResult) = Min(sArgs.limit, Cardinality(Matching))
        /\ ResultIds \subseteq Matching
        /\ \A i, j \in 1..Len(sResult) :
              i < j => sResult[i].similarity >= sResult[j].similarity
        /\ \A id \in Matching \ ResultIds : \A i \in 1..Len(sResult) :
              corpus[id].similarity <= sResult[i].similarity
        /\ Len(sResult) < sArgs.limit => Matching \subseteq ResultIds

(***************************************************************************)
(* C26: for distinct users X and Y, no tool call executed with user id X   *)
(* (save_conversation, add_relationship with any entity ids) changes the   *)
(* graph that build_user_graph returns for Y, from which                   *)
(* get_related_entities, get_entity_importance and get_topic_clusters      *)
(* compute their results.                                                  *)
(***************************************************************************)
\* build_user_graph(db, y) on the committed rows.
UserGraph(C, E, R, y) ==
    LET entity_ids == { e.id : e \in UserEntities(C, E, y) }
    IN  [nodes |-> entity_ids,
         edges |-> { <<r.source_entity_id, r.target_entity_id>> :
                       r \in UserRelationships(R, entity_ids) }]

\* A tool call executed with user id x.  add_relationship does not read the
\* caller's id, so every such call is one x can make.
ToolCallBy(x) ==
    \/ \E c \in Contents, extracted \in BOOLEAN : OwnSaveConversation(x, c, extracted)
    \/ \E source, target \in OwnEntityIds : OwnAddRelationship(source, target)
    \/ \E source, target \in OwnEntityIds : OwnAddRelationshipFails(source, target)

C26_OtherUsersGraphUnchanged ==
    [][\A x, y \in Users :
          (x # y /\ ToolCallBy(x))
              => UserGraph(owConversations', owEntities', owRelationships', y)
                   = UserGraph(owConversations, owEntities, owRelationships, y)]_vars

====
